---- MODULE Spec2Model ----
(***************************************************************************)
(* Video ingestion pipeline of SweetSwoot: the upload orchestrator         *)
(* (VideoServiceProvider.uploadVideo), the remote transcode service        *)
(* (LivepeerService.createAsset / getAsset / waitForAssetReady) and the    *)
(* in-browser transcode engine (FFmpegService).                            *)
(*                                                                         *)
(* Execution is one event loop: every action below is the code that runs   *)
(* between two suspension points (an await that resolves, a timer that     *)
(* fires), so an action is atomic exactly as the code is.                  *)
(***************************************************************************)
EXTENDS Integers, Sequences, FiniteSets, TLC

\* ---------------------------------------------------------------- bounds
MaxUploads == 1
MaxAttemptsArg == 5
MaxCallers == 2
MaxClock == 1
MaxWritten == 2
MaxErrors == 2
MaxSources == 2
MaxEvents == 2
MaxFetches == 2
MaxSubmits == 2

\* ------------------------------------------------------ program constants
DefaultMaxAttempts == 30
DefaultInterval == 5000
MaxFileSize == 104857600
MAX_SEGMENTS == 100

\* The uploads of Spec and of SpecPoll; SpecConcurrent runs one more beside them.
Uploads == 1..MaxUploads
ConcurrentUploads == 1..(MaxUploads + 1)
Callers == 1..MaxCallers
ReloadCallers == 1..(MaxCallers + 1)

VARIABLES
  \* VideoServiceProvider state
  isLoading, ipfsReady, livepeerReady,
  \* the credentials of the build's environment (VITE_PINATA_JWT,
  \* VITE_LIVEPEER_API_KEY)
  env,
  \* LivepeerService.client is set
  client,
  \* one uploadVideo call per upload id
  upc, ucid, uerr, awaited, createCalls, createOutcomes, asset, videoInfo,
  \* one waitForAssetReady run per upload id, and the log of its then/catch
  poll, monitorLog,
  \* FFmpegService singleton and its callers
  loaded, loading, ffmpeg, loads, vfs, ff, now,
  \* the build's beta flag, one LivepeerPlayer session, one CustomVideoPlayer,
  \* one HLSVideoPlayer, and the calls of the caller's onError
  betaModeEnabled, lp, cv, hp, onErrorCalls,
  \* what useActor() gives the session, and the log_watch_event calls made
  actor, watch,
  \* the fetchViaBackendProxy calls of IPFSService
  px,
  \* a createAsset call made with options of the caller's choice
  ca,
  \* the VideoUpload form, and the content id processVideo resolves for a video
  vu, rc

providerVars == <<isLoading, ipfsReady, livepeerReady, client, env>>
uploadVars == <<upc, ucid, uerr, awaited, createCalls, createOutcomes, asset, videoInfo>>
pollVars == <<poll, monitorLog>>
ffVars == <<loaded, loading, ffmpeg, loads, vfs, ff, now>>
formVars == <<vu, rc>>
serviceVars == <<px, ca, formVars>>
playerVars == <<betaModeEnabled, lp, cv, hp, onErrorCalls, actor, watch, serviceVars>>
vars == <<providerVars, uploadVars, pollVars, ffVars, playerVars>>

\* ------------------------------------------------- waitForAssetReady

\* What one status fetch can hand to the polling loop.
StatusResults == {"ready", "completed", "pending", "failed", "null", "raise"}

NoPoll ==
  [pc |-> "none", assetId |-> "", maxAttempts |-> 0, interval |-> 0, attempt |-> 0,
   calls |-> 0, sleeps |-> 0, slept |-> 0, failedSeen |-> FALSE, readySeen |-> FALSE, err |-> "", detached |-> FALSE,
   handled |-> FALSE]

\* The while test and what follows it up to the next suspension: either the
\* next getAsset call is issued, or the loop is left and the timeout raised.
LoopHeadOffByOne(r) ==
  IF r.attempt <= r.maxAttempts
  THEN [r EXCEPT !.attempt = r.attempt + 1, !.calls = r.calls + 1, !.pc = "getAsset"]
  ELSE [r EXCEPT !.pc = "raised", !.err = "Timeout"]

LoopHead(r) ==
  IF r.attempt < r.maxAttempts
  THEN [r EXCEPT !.attempt = r.attempt + 1, !.calls = r.calls + 1, !.pc = "getAsset"]
  ELSE [r EXCEPT !.pc = "raised", !.err = "Timeout"]

\* The call itself: the client guard, then the first pass over the loop head.
StartPoll(assetId, maxAttempts, interval, detached) ==
  LET r0 == [NoPoll EXCEPT !.assetId = assetId, !.maxAttempts = maxAttempts,
                           !.interval = interval, !.detached = detached]
  IN IF ~client
     THEN [r0 EXCEPT !.pc = "raised", !.err = "NotInitialized"]
     ELSE LoopHead(r0)

\* setTimeout(resolve, interval) is awaited.
Sleep(r) ==
  [r EXCEPT !.pc = "sleep", !.sleeps = r.sleeps + 1, !.slept = r.slept + r.interval]

\* The body of the try block once getAsset has settled with s.
OnStatusNoSleepOnNull(r, s) ==
  LET r1 == [r EXCEPT !.failedSeen = @ \/ s = "failed",
                      !.readySeen = @ \/ s \in {"ready", "completed"}]
  IN CASE s \in {"ready", "completed"} -> [r1 EXCEPT !.pc = "returned"]
       [] s = "null" -> LoopHead(r1)
       [] OTHER -> Sleep(r1)

OnStatus(r, s) ==
  LET r1 == [r EXCEPT !.failedSeen = @ \/ s = "failed",
                      !.readySeen = @ \/ s \in {"ready", "completed"}]
  IN CASE s = "raise" -> Sleep(r1)       \* getAsset rejected: catch, sleep
       [] s = "null" -> Sleep(r1)        \* no asset: sleep, continue
       [] s \in {"ready", "completed"} -> [r1 EXCEPT !.pc = "returned"]
       [] s = "failed" -> Sleep(r1)      \* thrown inside the try: caught, sleep
       [] OTHER -> Sleep(r1)             \* any other phase: sleep

Terminal(r) == r.pc \in {"returned", "raised"}
Running(r) == r.pc \in {"getAsset", "sleep"}

\* getAsset settles for run p with status s.
PollResult(p, s) ==
  /\ poll[p].pc = "getAsset"
  /\ poll' = [poll EXCEPT ![p] = OnStatus(poll[p], s)]

\* The sleep timer of run p fires.
PollWake(p) ==
  /\ poll[p].pc = "sleep"
  /\ poll' = [poll EXCEPT ![p] = LoopHead(poll[p])]

\* A direct call of waitForAssetReady(assetId, maxAttempts, interval).
CallWaitForAssetReady(p, maxAttempts, interval) ==
  /\ poll[p].pc = "none"
  /\ poll' = [poll EXCEPT ![p] = StartPoll("a1", maxAttempts, interval, FALSE)]
  /\ UNCHANGED <<monitorLog, providerVars, uploadVars, ffVars, playerVars>>

\* The status endpoint answers run p: any result it can give.
StatusFetch(p) ==
  /\ \E s \in StatusResults : PollResult(p, s)
  /\ UNCHANGED <<monitorLog, providerVars, uploadVars, ffVars, playerVars>>

SleepDone(p) ==
  /\ PollWake(p)
  /\ UNCHANGED <<monitorLog, providerVars, uploadVars, ffVars, playerVars>>

\* ------------------------------------------------------------ getAsset

\* What client.stream.get can do: reject, resolve to nothing, or resolve to
\* a stream whose active flag is set or not.
StreamOutcomes == {"reject", "empty", "active", "inactive"}

\* getAsset: SDK errors and empty answers become null, otherwise the phase
\* is derived from the active flag.
GetAssetPassingPhase(o) ==
  CASE o = "reject" -> "null"
    [] o = "empty" -> "null"
    [] o = "active" -> "ready"
    [] OTHER -> "failed"

\* The status phase getAsset gives for what the stream lookup answered: null
\* on a rejection or an empty answer, else 'ready' or 'pending' after the
\* stream's active flag.
GetAsset(o) ==
  CASE o = "reject" -> "null"
    [] o = "empty" -> "null"
    [] o = "active" -> "ready"
    [] OTHER -> "pending"

\* ------------------------------------------------------------ URLs

\* A URL: scheme://host/path/id/file. An ipfs:// URL has no host and no path.
NoUrl == [scheme |-> "", host |-> "", path |-> "", id |-> "", file |-> ""]

\* IPFSService.getGatewayUrlSync: https://<gatewayDomain>/ipfs/<cid>
GetGatewayUrlSync(cid) ==
  IF cid = "" THEN NoUrl
  ELSE [scheme |-> "https", host |-> "gatewayDomain", path |-> "ipfs", id |-> cid, file |-> ""]

\* LivepeerService.convertToPublicGateways: a URL ipfs://<cid...> becomes
\* https://ipfs.io/ipfs/<cid...>, and a URL with an /ipfs/<cid> part becomes
\* https://ipfs.io/ipfs/<cid>; any other URL is returned as it is.
ConvertToPublicGatewaysSchemeOnly(url) ==
  IF url.scheme = "ipfs" /\ ~(url.id = "" /\ url.file = "")
  THEN [scheme |-> "https", host |-> "ipfs.io", path |-> "ipfs",
        id |-> url.id, file |-> url.file]
  ELSE url

ConvertToPublicGateways(url) ==
  IF url = NoUrl THEN url
  ELSE IF url.scheme = "ipfs"
  THEN \* the cid is everything after ipfs://
       IF url.id = "" /\ url.file = "" THEN url
       ELSE [scheme |-> "https", host |-> "ipfs.io", path |-> "ipfs",
             id |-> url.id, file |-> url.file]
  ELSE IF url.path # "ipfs" THEN url
  ELSE \* the cid is what follows /ipfs/ up to the next / ? or #
       IF url.id = "" THEN url
       ELSE [scheme |-> "https", host |-> "ipfs.io", path |-> "ipfs",
             id |-> url.id, file |-> ""]

\* LivepeerService.getPlaybackUrl / getThumbnailUrl (time = 0)
GetPlaybackUrl(playbackId) ==
  IF playbackId = "" THEN NoUrl
  ELSE [scheme |-> "https", host |-> "lp-playback", path |-> "hls", id |-> playbackId, file |-> "index.m3u8"]

GetThumbnailUrl(playbackId) ==
  IF playbackId = "" THEN NoUrl
  ELSE [scheme |-> "https", host |-> "lp-playback", path |-> "hls", id |-> playbackId, file |-> "thumbnail.jpg"]

\* ------------------------------------------------------------ createAsset

\* The options uploadVideo passes: name, url, profiles and metadata, no file.
UploadOptions(cid) ==
  [url |-> GetGatewayUrlSync(cid), file |-> FALSE, profiles |-> TRUE, metadata |-> TRUE]

\* The first call: every option that is present is spread into the params.
CreateParams(o, url) ==
  [method |-> "stream.create",
   fields |-> {"name"} \cup (IF url # NoUrl THEN {"url"} ELSE {})
                       \cup (IF o.file THEN {"file"} ELSE {})
                       \cup (IF o.profiles THEN {"profiles"} ELSE {})
                       \cup (IF o.metadata THEN {"metadata"} ELSE {}),
   url |-> url]

\* The fallback call: name and url only.
FallbackParams(o, url) ==
  [method |-> "stream.create",
   fields |-> {"name"} \cup (IF url # NoUrl THEN {"url"} ELSE {}),
   url |-> url]

\* What a create call can resolve to: the id and the playback id may be absent.
\* The transcoder gives every stream an id of its own.
CreateResponses(u) ==
  {[id |-> ToString(u), playbackId |-> ToString(u)], [id |-> "", playbackId |-> ""]}

NoAsset == [id |-> "", phase |-> "", playbackId |-> "", duration |-> 0]

\* The "safe asset object" built from the response.
MakeAsset(resp) ==
  [id |-> IF resp.id = "" THEN "unknown-id" ELSE resp.id,
   phase |-> "created",
   playbackId |-> IF resp.playbackId = "" THEN "unknown-playback-id" ELSE resp.playbackId,
   duration |-> 0]

\* createAsset called with a url of the caller's choice (and the profiles
\* and metadata uploadVideo passes): the URLs it can be given.
UrlInputs ==
  {NoUrl}
  \cup [scheme : {"https"}, host : {"gatewayDomain", "ipfs.io", "example.com"},
        path : {"ipfs", "videos"}, id : {"", "QmA"}, file : {"", "video.mp4"}]
  \cup [scheme : {"ipfs"}, host : {""}, path : {""}, id : {"QmA"},
        file : {"", "video.mp4"}]
  \cup {[scheme |-> "ipfs", host |-> "", path |-> "", id |-> "", file |-> ""]}

NoCa == [pc |-> "idle", given |-> NoUrl, url |-> NoUrl, calls |-> <<>>]

CaOptions(x) == [url |-> x.url, file |-> FALSE, profiles |-> TRUE, metadata |-> TRUE]

\* createAsset(options): the client check, options.url is rewritten in
\* place, then the HEAD check is awaited when there is a url, else the first
\* create call.
CreateAssetCalled(url) ==
  /\ ca.pc = "idle"
  /\ ca' = IF ~client THEN [ca EXCEPT !.pc = "raised", !.given = url, !.url = url]
           ELSE LET x == [ca EXCEPT !.given = url, !.url = ConvertToPublicGateways(url)]
                IN IF x.url # NoUrl THEN [x EXCEPT !.pc = "headCheck"]
                   ELSE [x EXCEPT !.pc = "create1",
                                  !.calls = Append(@, CreateParams(CaOptions(x), x.url))]
  /\ UNCHANGED <<px, formVars, actor, watch, betaModeEnabled, lp, cv, hp, onErrorCalls>>
  /\ UNCHANGED <<providerVars, uploadVars, pollVars, ffVars>>

\* The HEAD check settles, either way; the first create call is issued.
CaHeadCheckDone(ok) ==
  /\ ca.pc = "headCheck"
  /\ ca' = [ca EXCEPT !.pc = "create1",
                      !.calls = Append(@, CreateParams(CaOptions(ca), ca.url))]
  /\ UNCHANGED <<px, formVars, actor, watch, betaModeEnabled, lp, cv, hp, onErrorCalls>>
  /\ UNCHANGED <<providerVars, uploadVars, pollVars, ffVars>>

\* The first create call settles: on a rejection the fallback call is issued.
CaCreate1Settles(ok) ==
  /\ ca.pc = "create1"
  /\ ca' = IF ok THEN [ca EXCEPT !.pc = "returned"]
           ELSE [ca EXCEPT !.pc = "create2",
                           !.calls = Append(@, FallbackParams(CaOptions(ca), ca.url))]
  /\ UNCHANGED <<px, formVars, actor, watch, betaModeEnabled, lp, cv, hp, onErrorCalls>>
  /\ UNCHANGED <<providerVars, uploadVars, pollVars, ffVars>>

\* The fallback call settles.
CaCreate2Settles(ok) ==
  /\ ca.pc = "create2"
  /\ ca' = [ca EXCEPT !.pc = IF ok THEN "returned" ELSE "raised"]
  /\ UNCHANGED <<px, formVars, actor, watch, betaModeEnabled, lp, cv, hp, onErrorCalls>>
  /\ UNCHANGED <<providerVars, uploadVars, pollVars, ffVars>>

\* ------------------------------------------------------------ uploadVideo

Cids == {"QmA"}

\* Two content ids of full length that agree on their first 16 characters.
LongCidA == "QmYwAPJzv5CZsnA625s3Xf2nemtYgPpHdWEz79ojWnPbdG"
LongCidB == "QmYwAPJzv5CZsnA6fTq1mVcDx9uKe4RbLh7Ns2GoPy3WzH"
LongCids == {LongCidA, LongCidB}

\* cid.substring(0, 16): a shorter string is returned whole.
CidHead(cid) ==
  IF cid \in LongCids THEN "QmYwAPJzv5CZsnA6" ELSE cid

NoInfo ==
  [set |-> FALSE, id |-> [head |-> "", timestamp |-> 0], uploadDate |-> 0,
   ipfsCid |-> "", livepeerAssetId |-> "", livepeerPlaybackId |-> "",
   playbackUrl |-> NoUrl, thumbnailUrl |-> NoUrl, duration |-> 0]

\* The VideoInfo uploadVideo returns; timestamp is what Date.now() gave, and
\* the id is the text `${cid.substring(0, 16)}-${timestamp}`.
MakeVideoInfo(cid, a, timestamp) ==
  [set |-> TRUE, id |-> [head |-> CidHead(cid), timestamp |-> timestamp],
   uploadDate |-> timestamp,
   ipfsCid |-> cid, livepeerAssetId |-> a.id,
   livepeerPlaybackId |-> a.playbackId,
   playbackUrl |-> GetPlaybackUrl(a.playbackId),
   thumbnailUrl |-> GetThumbnailUrl(a.playbackId),
   duration |-> a.duration]

Reject(u, e) ==
  /\ upc' = [upc EXCEPT ![u] = "rejected"]
  /\ uerr' = [uerr EXCEPT ![u] = e]

\* uploadVideo is called: the readiness guards, then uploadFile is awaited.
UploadVideo(u) ==
  /\ upc[u] = "idle"
  /\ IF u = 1 THEN TRUE ELSE upc[u - 1] # "idle"   \* ids are given in call order
  /\ IF ~ipfsReady
     THEN Reject(u, "IpfsNotReady") /\ UNCHANGED awaited
     ELSE IF ~livepeerReady
     THEN Reject(u, "LivepeerNotReady") /\ UNCHANGED awaited
     ELSE /\ upc' = [upc EXCEPT ![u] = "uploadFile"]
          /\ awaited' = [awaited EXCEPT ![u] = Append(@, "uploadFile")]
          /\ UNCHANGED uerr
  /\ UNCHANGED <<ucid, createCalls, createOutcomes, asset, videoInfo>>
  /\ UNCHANGED <<providerVars, pollVars, ffVars, playerVars>>

\* uploadFile settles with r: a cid, a response without a cid (""), or a
\* failure. On success createAsset is called and awaited; it first checks the
\* source URL with a HEAD request.
UploadFileDone(u, r) ==
  /\ upc[u] = "uploadFile"
  /\ IF r \in Cids \cup LongCids
     THEN /\ ucid' = [ucid EXCEPT ![u] = r]
          /\ awaited' = [awaited EXCEPT ![u] = Append(@, "createAsset")]
          /\ IF client
             THEN upc' = [upc EXCEPT ![u] = "headCheck"] /\ UNCHANGED uerr
             ELSE Reject(u, "NotInitialized")
     ELSE /\ Reject(u, "StorageUpload")
          /\ UNCHANGED <<ucid, awaited>>
  /\ UNCHANGED <<createCalls, createOutcomes, asset, videoInfo>>
  /\ UNCHANGED <<providerVars, pollVars, ffVars, playerVars>>

\* The HEAD check settles, either way; the first create call is issued.
HeadCheckDone(u, ok) ==
  /\ upc[u] = "headCheck"
  /\ LET o == UploadOptions(ucid[u])
     IN createCalls' = [createCalls EXCEPT
                          ![u] = Append(@, CreateParams(o, ConvertToPublicGateways(o.url)))]
  /\ upc' = [upc EXCEPT ![u] = "create1"]
  /\ UNCHANGED <<ucid, uerr, awaited, createOutcomes, asset, videoInfo>>
  /\ UNCHANGED <<providerVars, pollVars, ffVars, playerVars>>

\* createAsset has resolved with resp: uploadVideo starts the detached
\* monitor, builds the VideoInfo and returns it.
ReturnAfterAwaitingPoll(u, resp) ==
  LET a == MakeAsset(resp)
  IN /\ asset' = [asset EXCEPT ![u] = a]
     /\ poll' = [poll EXCEPT ![u] = StartPoll(a.id, DefaultMaxAttempts, DefaultInterval, TRUE)]
     /\ UNCHANGED monitorLog
     /\ awaited' = [awaited EXCEPT ![u] = Append(@, "waitForAssetReady")]
     /\ videoInfo' = [videoInfo EXCEPT ![u] = MakeVideoInfo(ucid[u], a, now)]
     /\ upc' = [upc EXCEPT ![u] = "returned"]

ReturnPartialInfo(u, resp) ==
  LET a == MakeAsset(resp)
  IN /\ asset' = [asset EXCEPT ![u] = a]
     /\ poll' = [poll EXCEPT ![u] = StartPoll(a.id, DefaultMaxAttempts, DefaultInterval, TRUE)]
     /\ UNCHANGED monitorLog
     /\ awaited' = awaited
     /\ videoInfo' = [videoInfo EXCEPT ![u] = MakeVideoInfo(ucid[u], a, now)]
     /\ upc' = [upc EXCEPT ![u] = "returned"]

\* The first create call resolves.
Create1Ok(u, resp) ==
  /\ upc[u] = "create1"
  /\ createOutcomes' = [createOutcomes EXCEPT ![u] = Append(@, "ok")]
  /\ ReturnPartialInfo(u, resp)
  /\ UNCHANGED <<ucid, uerr, createCalls>>
  /\ UNCHANGED <<providerVars, ffVars, playerVars>>

\* The first create call rejects: the fallback call is issued.
Create1FailNoFallback(u) ==
  /\ upc[u] = "create1"
  /\ createOutcomes' = [createOutcomes EXCEPT ![u] = Append(@, "fail")]
  /\ Reject(u, "Submit")
  /\ UNCHANGED <<ucid, awaited, createCalls, asset, videoInfo>>
  /\ UNCHANGED <<providerVars, pollVars, ffVars, playerVars>>

Create1Fail(u) ==
  /\ upc[u] = "create1"
  /\ createOutcomes' = [createOutcomes EXCEPT ![u] = Append(@, "fail")]
  /\ LET o == UploadOptions(ucid[u])
     IN createCalls' = [createCalls EXCEPT
                          ![u] = Append(@, FallbackParams(o, ConvertToPublicGateways(o.url)))]
  /\ upc' = [upc EXCEPT ![u] = "create2"]
  /\ UNCHANGED <<ucid, uerr, awaited, asset, videoInfo>>
  /\ UNCHANGED <<providerVars, pollVars, ffVars, playerVars>>

\* The fallback call resolves.
Create2Ok(u, resp) ==
  /\ upc[u] = "create2"
  /\ createOutcomes' = [createOutcomes EXCEPT ![u] = Append(@, "ok")]
  /\ ReturnPartialInfo(u, resp)
  /\ UNCHANGED <<ucid, uerr, createCalls>>
  /\ UNCHANGED <<providerVars, ffVars, playerVars>>

\* The fallback call rejects too: createAsset rethrows, uploadVideo rethrows.
SubmitFailedSwallowed(u) ==
  ReturnPartialInfo(u, [id |-> "", playbackId |-> ""]) /\ UNCHANGED uerr

SubmitFailed(u) ==
  /\ Reject(u, "Submit")
  /\ UNCHANGED <<awaited, asset, videoInfo, pollVars>>

Create2Fail(u) ==
  /\ upc[u] = "create2"
  /\ createOutcomes' = [createOutcomes EXCEPT ![u] = Append(@, "fail")]
  /\ SubmitFailed(u)
  /\ UNCHANGED <<ucid, createCalls>>
  /\ UNCHANGED <<providerVars, ffVars, playerVars>>

\* The stream endpoint answers the detached monitor of upload u.
GetAssetDone(u) ==
  /\ poll[u].detached
  /\ \E o \in StreamOutcomes : PollResult(u, GetAsset(o))
  /\ UNCHANGED <<monitorLog, providerVars, uploadVars, ffVars, playerVars>>

MonitorWake(u) ==
  /\ poll[u].detached
  /\ PollWake(u)
  /\ UNCHANGED <<monitorLog, providerVars, uploadVars, ffVars, playerVars>>

\* The then/catch that uploadVideo chains on the detached run: both log, no
\* more.
MonitorHandlerFailingUpload(u) ==
  /\ monitorLog' = [monitorLog EXCEPT ![u] = Append(@,
        IF poll[u].pc = "returned" THEN "Asset processing complete"
                                   ELSE "Asset monitoring error")]
  /\ IF poll[u].pc = "raised"
     THEN /\ upc' = [upc EXCEPT ![u] = "rejected"]
          /\ uerr' = [uerr EXCEPT ![u] = poll[u].err]
          /\ videoInfo' = [videoInfo EXCEPT ![u] = NoInfo]
     ELSE UNCHANGED <<upc, uerr, videoInfo>>
  /\ UNCHANGED asset

MonitorHandler(u) ==
  /\ monitorLog' = [monitorLog EXCEPT ![u] = Append(@,
        IF poll[u].pc = "returned" THEN "Asset processing complete"
                                   ELSE "Asset monitoring error")]
  /\ UNCHANGED <<upc, uerr, videoInfo, asset>>

\* The detached run has settled: its handler runs.
MonitorSettled(u) ==
  /\ poll[u].detached
  /\ Terminal(poll[u])
  /\ ~poll[u].handled
  /\ poll' = [poll EXCEPT ![u].handled = TRUE]
  /\ MonitorHandler(u)
  /\ UNCHANGED <<ucid, awaited, createCalls, createOutcomes>>
  /\ UNCHANGED <<providerVars, ffVars, playerVars>>

\* ------------------------------------------------- VideoServiceProvider init

\* A JWT is absent, present without a dot or shorter than 20 characters, or
\* well formed; an API key is absent, a placeholder of the example file, made
\* of blanks only, or anything else. "valid" is what the code accepts: no
\* request is made to either service to ask whether it accepts the credential.
JwtValues == {"missing", "malformed", "valid"}
KeyValues == {"missing", "placeholder", "blank", "valid"}
Environments == [jwt : JwtValues, key : KeyValues]
ValidEnv == [jwt |-> "valid", key |-> "valid"]

\* The IPFS branch of initServices: the JWT is present and passes the format
\* check, after which setPinataJWT builds the SDK and isPinataConfigured holds.
IpfsReadyWith(jwt) == jwt # "missing" /\ jwt # "malformed"

LivepeerReadyWithAnyKey(key) == key # "missing"

\* The Livepeer branch of initServices: the key is present, is no placeholder,
\* and LivepeerService.initialize does not raise on it (it raises on blanks).
LivepeerReadyWith(key) ==
  /\ key # "missing"
  /\ key # "placeholder"
  /\ key # "blank"

\* initServices: each service becomes ready only with a usable credential;
\* every failure is caught, and the loading flag is cleared in the finally
\* block.
InitServices ==
  /\ isLoading
  /\ ipfsReady' = IpfsReadyWith(env.jwt)
  /\ livepeerReady' = LivepeerReadyWith(env.key)
  /\ client' = LivepeerReadyWith(env.key)
  /\ isLoading' = FALSE
  /\ UNCHANGED <<env, uploadVars, pollVars, ffVars, playerVars>>

\* ------------------------------------------------------------ FFmpegService

\* File sizes on both sides of the 100 MiB limit.
Sizes == {MaxFileSize, MaxFileSize + 1}

\* One call of convertToHLS or generateThumbnail: where it is suspended, its
\* arguments and locals, the error it raised and the step it raised at.
NoCall ==
  [op |-> "", pc |-> "idle", size |-> 0, fileId |-> 0, err |-> "", at |-> "",
   engineCalls |-> 0, thumbFailed |-> FALSE, index |-> 0, segmentUrls |-> <<>>,
   playlistUrl |-> FALSE, thumbnailUrl |-> FALSE]

\* Names in the engine's virtual filesystem.
File(kind, id, i) == [kind |-> kind, id |-> id, i |-> i]
InputFile(id) == File("input", id, 0)
ThumbnailFile(id) == File("thumbnail", id, 0)
PlaylistFile(id) == File("playlist", id, 0)
\* segmentPattern with %d replaced by the index: segment-<id>-<i>.ts
SegmentFile(id, i) == File("segment", id, i)
\* What the hls muxer writes when the command names no segment file: the
\* playlist name without its extension, then the index: playlist-<id><i>.ts
EngineSegmentFile(id, i) == File("playlistSegment", id, i)

Raise(f, c, e) == [f EXCEPT ![c].pc = "done", ![c].err = e, ![c].at = f[c].pc]

\* convertToHLS after ensureLoaded has returned, with handle h: the handle
\* check, the file names, the size check, then fetchFile is awaited.
ConvertBody(f, c, h) ==
  IF ~h
  THEN Raise(f, c, "NotLoaded")
  ELSE IF f[c].size > MaxFileSize
  THEN [Raise(f, c, "TooLarge") EXCEPT ![c].fileId = now]
  ELSE [f EXCEPT ![c].pc = "fetchFile", ![c].fileId = now]

\* generateThumbnail after ensureLoaded has returned: the handle check, the
\* two file names (both from Date.now()), then fetchFile is awaited.
ThumbnailBody(f, c, h) ==
  IF ~h
  THEN Raise(f, c, "NotLoaded")
  ELSE [f EXCEPT ![c].pc = "gtFetchFile", ![c].fileId = now]

\* The tail of ensureLoaded, once no load is in flight.
AfterLoadUnchecked(f, c, ld, h) ==
  IF f[c].op = "generateThumbnail" THEN ThumbnailBody(f, c, h)
  ELSE ConvertBody(f, c, h)

\* What follows ensureLoaded's waiting: its final check of the flag and the
\* handle, then the body of the operation.
AfterLoad(f, c, ld, h) ==
  IF ~ld \/ ~h THEN Raise(f, c, "LoadFailed")
  ELSE IF f[c].op = "generateThumbnail" THEN ThumbnailBody(f, c, h)
  ELSE ConvertBody(f, c, h)

\* ensureLoaded as the first step of a call by c: it starts a load when none
\* has succeeded and none is in flight, waits when one is in flight, and
\* otherwise goes on.
EnsureLoadedUnguarded(c, f) ==
  IF ~loaded
  THEN /\ loading' = TRUE
       /\ ffmpeg' = TRUE
       /\ loads' = loads + 1
       /\ ff' = [f EXCEPT ![c].pc = "load", ![c].engineCalls = @ + 1]
  ELSE /\ ff' = AfterLoad(f, c, loaded, ffmpeg)
       /\ UNCHANGED <<loading, ffmpeg, loads>>

EnsureLoaded(c, f) ==
  IF ~loaded /\ ~loading
  THEN /\ loading' = TRUE
       /\ ffmpeg' = TRUE
       /\ loads' = loads + 1
       /\ ff' = [f EXCEPT ![c].pc = "load", ![c].engineCalls = @ + 1]
  ELSE IF loading
  THEN /\ ff' = [f EXCEPT ![c].pc = "waitLoad"]
       /\ UNCHANGED <<loading, ffmpeg, loads>>
  ELSE /\ ff' = AfterLoad(f, c, loaded, ffmpeg)
       /\ UNCHANGED <<loading, ffmpeg, loads>>

\* convertToHLS(videoFile) is called: what the call does to the service.
ConvertToHLSCall(c, size) ==
  /\ ff[c].pc = "idle"
  /\ IF c = 1 THEN TRUE ELSE ff[c - 1].pc # "idle"   \* ids are given in call order
  /\ EnsureLoaded(c, [ff EXCEPT ![c].op = "convertToHLS", ![c].size = size])
  /\ UNCHANGED <<loaded, vfs, now>>

\* convertToHLS(videoFile) is called by some client of the service.
ConvertToHLS(c, size) ==
  /\ ConvertToHLSCall(c, size)
  /\ UNCHANGED <<providerVars, uploadVars, pollVars, playerVars>>

\* generateThumbnail(videoFile) is called.
GenerateThumbnail(c, size) ==
  /\ ff[c].pc = "idle"
  /\ IF c = 1 THEN TRUE ELSE ff[c - 1].pc # "idle"
  /\ EnsureLoaded(c, [ff EXCEPT ![c].op = "generateThumbnail", ![c].size = size])
  /\ UNCHANGED <<loaded, vfs, now>>
  /\ UNCHANGED <<providerVars, uploadVars, pollVars, playerVars>>

\* The load that caller c started settles: the two downloads and the engine's
\* own load are three awaits with the same state between them. On failure the
\* handle is cleared; the loading flag is cleared either way.
LoadSettlesKeepingHandle(c, ok) ==
  /\ ff[c].pc = "load"
  /\ loading' = FALSE
  /\ loaded' = (loaded \/ ok)
  /\ ffmpeg' = ffmpeg
  /\ ff' = AfterLoad(ff, c, loaded \/ ok, ok /\ ffmpeg)
  /\ UNCHANGED <<loads, vfs, now>>
  /\ UNCHANGED <<providerVars, uploadVars, pollVars, playerVars>>

\* The load started by caller c settles: on success loaded is set, on failure
\* the handle is cleared; the finally block clears loading; then the caller's
\* ensureLoaded goes on.
LoadSettles(c, ok) ==
  /\ ff[c].pc = "load"
  /\ loading' = FALSE
  /\ loaded' = (loaded \/ ok)
  /\ ffmpeg' = (ok /\ ffmpeg)
  /\ ff' = AfterLoad(ff, c, loaded \/ ok, ok /\ ffmpeg)
  /\ UNCHANGED <<loads, vfs, now>>
  /\ UNCHANGED <<providerVars, uploadVars, pollVars, playerVars>>

\* The 100 ms check of a waiting caller finds no load in flight.
WaitDone(c) ==
  /\ ff[c].pc = "waitLoad"
  /\ ~loading
  /\ ff' = AfterLoad(ff, c, loaded, ffmpeg)
  /\ UNCHANGED <<loaded, loading, ffmpeg, loads, vfs, now>>
  /\ UNCHANGED <<providerVars, uploadVars, pollVars, playerVars>>

\* Date.now() advances.
Tick ==
  /\ now < MaxClock
  /\ now' = now + 1
  /\ UNCHANGED <<loaded, loading, ffmpeg, loads, vfs, ff>>
  /\ UNCHANGED <<providerVars, uploadVars, pollVars, playerVars>>

engineVars == <<loaded, loading, ffmpeg, loads, now>>

\* One more engine call by caller c, which then waits at pc.
Issue(f, c, pc) == [f EXCEPT ![c].pc = pc, ![c].engineCalls = @ + 1]

\* fetchFile has read the input: writeFile(input) is issued.
FetchFileDone(c) ==
  /\ ff[c].pc = "fetchFile"
  /\ ff' = Issue(ff, c, "writeInput")
  /\ UNCHANGED <<engineVars, vfs>>
  /\ UNCHANGED <<providerVars, uploadVars, pollVars, playerVars>>

\* writeFile settles; then the thumbnail command is issued.
WriteInputDone(c, ok) ==
  /\ ff[c].pc = "writeInput"
  /\ IF ok
     THEN /\ vfs' = vfs \cup {InputFile(ff[c].fileId)}
          /\ ff' = Issue(ff, c, "thumbnail")
     ELSE /\ ff' = Raise(ff, c, "EngineError")
          /\ UNCHANGED vfs
  /\ UNCHANGED engineVars
  /\ UNCHANGED <<providerVars, uploadVars, pollVars, playerVars>>

ThumbnailOutcomes == {"written", "nofile", "raise"}

\* The thumbnail command settles: its failure is caught and logged; the
\* transcode command is issued in every case.
ThumbnailDone(c, out) ==
  /\ ff[c].pc = "thumbnail"
  /\ vfs' = IF out = "written" THEN vfs \cup {ThumbnailFile(ff[c].fileId)} ELSE vfs
  /\ ff' = Issue([ff EXCEPT ![c].thumbFailed = (out # "written")], c, "transcode")
  /\ UNCHANGED engineVars
  /\ UNCHANGED <<providerVars, uploadVars, pollVars, playerVars>>

\* The transcode command settles: it raises, or it has written the playlist
\* and n segment files.
TranscodeDone(c, ok, n) ==
  /\ ff[c].pc = "transcode"
  /\ IF ok
     THEN /\ vfs' = vfs \cup {PlaylistFile(ff[c].fileId)}
                        \cup {EngineSegmentFile(ff[c].fileId, i) : i \in 0..(n - 1)}
          /\ ff' = Issue(ff, c, "readPlaylist")
     ELSE /\ ff' = Raise(ff, c, "EngineError")
          /\ UNCHANGED vfs
  /\ UNCHANGED engineVars
  /\ UNCHANGED <<providerVars, uploadVars, pollVars, playerVars>>

\* readFile(playlist) settles; readFile(thumbnail) is issued.
ReadPlaylistDone(c) ==
  /\ ff[c].pc = "readPlaylist"
  /\ ff' = IF PlaylistFile(ff[c].fileId) \in vfs
           THEN Issue([ff EXCEPT ![c].playlistUrl = TRUE], c, "readThumbnail")
           ELSE Raise(ff, c, "EngineError")
  /\ UNCHANGED <<engineVars, vfs>>
  /\ UNCHANGED <<providerVars, uploadVars, pollVars, playerVars>>

\* The segment loop's head: the next probe, or deleteFile(input) once the
\* loop is left.
NextProbeOffByOne(f, c) ==
  IF f[c].index <= MAX_SEGMENTS THEN Issue(f, c, "readSegment")
  ELSE Issue(f, c, "deleteInput")

NextProbe(f, c) ==
  IF f[c].index < MAX_SEGMENTS THEN Issue(f, c, "readSegment")
  ELSE Issue(f, c, "deleteInput")

\* readFile(thumbnail) settles: outside any try of its own, so a missing
\* thumbnail raises; otherwise segment collection starts at index 0.
ReadThumbnailDone(c) ==
  /\ ff[c].pc = "readThumbnail"
  /\ ff' = IF ThumbnailFile(ff[c].fileId) \in vfs
           THEN NextProbe([ff EXCEPT ![c].thumbnailUrl = TRUE], c)
           ELSE Raise(ff, c, "EngineError")
  /\ UNCHANGED <<engineVars, vfs>>
  /\ UNCHANGED <<providerVars, uploadVars, pollVars, playerVars>>

\* What readFile of a segment name can answer: bytes, no bytes, or a raise.
SegmentReads == {"data", "empty", "missing"}

\* One pass of the loop body once readFile(segment-<id>-<index>.ts) has
\* answered r: a URL for the index is pushed and the index advances, or the
\* loop is left on an empty or missing read.
OnSegmentRead(f, c, r) ==
  IF r = "data"
  THEN NextProbe([f EXCEPT ![c].segmentUrls = Append(@, f[c].index),
                           ![c].index = @ + 1], c)
  ELSE Issue(f, c, "deleteInput")

\* The read settles with what the virtual filesystem holds under that name.
ReadSegmentDone(c) ==
  /\ ff[c].pc = "readSegment"
  /\ ff' = OnSegmentRead(ff, c, IF SegmentFile(ff[c].fileId, ff[c].index) \in vfs
                                THEN "data" ELSE "missing")
  /\ UNCHANGED <<engineVars, vfs>>
  /\ UNCHANGED <<providerVars, uploadVars, pollVars, playerVars>>

\* The read settles with any answer: an engine that behaves in any way.
ReadSegmentAny(c, r) ==
  /\ ff[c].pc = "readSegment"
  /\ ff' = OnSegmentRead(ff, c, r)
  /\ UNCHANGED <<engineVars, vfs>>
  /\ UNCHANGED <<providerVars, uploadVars, pollVars, playerVars>>

\* deleteFile(input) settles: the result is returned.
DeleteInputDone(c, ok) ==
  /\ ff[c].pc = "deleteInput"
  /\ IF ok /\ InputFile(ff[c].fileId) \in vfs
     THEN /\ vfs' = vfs \ {InputFile(ff[c].fileId)}
          /\ ff' = [ff EXCEPT ![c].pc = "done"]
     ELSE /\ ff' = Raise(ff, c, "EngineError")
          /\ UNCHANGED vfs
  /\ UNCHANGED engineVars
  /\ UNCHANGED <<providerVars, uploadVars, pollVars, playerVars>>

\* ------------------------------------------------- generateThumbnail body

\* fetchFile has read the input: writeFile(input) is issued.
GtFetchFileDone(c) ==
  /\ ff[c].pc = "gtFetchFile"
  /\ ff' = Issue(ff, c, "gtWriteInput")
  /\ UNCHANGED <<engineVars, vfs>>
  /\ UNCHANGED <<providerVars, uploadVars, pollVars, playerVars>>

\* writeFile settles; the thumbnail command is issued.
GtWriteInputDone(c, ok) ==
  /\ ff[c].pc = "gtWriteInput"
  /\ IF ok
     THEN /\ vfs' = vfs \cup {InputFile(ff[c].fileId)}
          /\ ff' = Issue(ff, c, "gtExec")
     ELSE /\ ff' = Raise(ff, c, "EngineError")
          /\ UNCHANGED vfs
  /\ UNCHANGED engineVars
  /\ UNCHANGED <<providerVars, uploadVars, pollVars, playerVars>>

\* The thumbnail command settles: here a raise is rethrown; otherwise
\* readFile(thumbnail) is issued.
GtExecDone(c, out) ==
  /\ ff[c].pc = "gtExec"
  /\ vfs' = IF out = "written" THEN vfs \cup {ThumbnailFile(ff[c].fileId)} ELSE vfs
  /\ ff' = IF out = "raise" THEN Raise(ff, c, "EngineError")
           ELSE Issue([ff EXCEPT ![c].thumbFailed = (out # "written")], c, "gtRead")
  /\ UNCHANGED engineVars
  /\ UNCHANGED <<providerVars, uploadVars, pollVars, playerVars>>

\* readFile(thumbnail) settles; deleteFile(input) is issued.
GtReadDone(c) ==
  /\ ff[c].pc = "gtRead"
  /\ ff' = IF ThumbnailFile(ff[c].fileId) \in vfs
           THEN Issue([ff EXCEPT ![c].thumbnailUrl = TRUE], c, "gtDeleteInput")
           ELSE Raise(ff, c, "EngineError")
  /\ UNCHANGED <<engineVars, vfs>>
  /\ UNCHANGED <<providerVars, uploadVars, pollVars, playerVars>>

\* deleteFile(input) settles; deleteFile(thumbnail) is issued.
GtDeleteInputDone(c, ok) ==
  /\ ff[c].pc = "gtDeleteInput"
  /\ IF ok /\ InputFile(ff[c].fileId) \in vfs
     THEN /\ vfs' = vfs \ {InputFile(ff[c].fileId)}
          /\ ff' = Issue(ff, c, "gtDeleteOutput")
     ELSE /\ ff' = Raise(ff, c, "EngineError")
          /\ UNCHANGED vfs
  /\ UNCHANGED engineVars
  /\ UNCHANGED <<providerVars, uploadVars, pollVars, playerVars>>

\* deleteFile(thumbnail) settles: the thumbnail URL is returned.
GtDeleteOutputDone(c, ok) ==
  /\ ff[c].pc = "gtDeleteOutput"
  /\ IF ok /\ ThumbnailFile(ff[c].fileId) \in vfs
     THEN /\ vfs' = vfs \ {ThumbnailFile(ff[c].fileId)}
          /\ ff' = [ff EXCEPT ![c].pc = "done"]
     ELSE /\ ff' = Raise(ff, c, "EngineError")
          /\ UNCHANGED vfs
  /\ UNCHANGED engineVars
  /\ UNCHANGED <<providerVars, uploadVars, pollVars, playerVars>>

\* ------------------------------------------------------------ players

\* isDirectFallbackAllowed(): the beta flag of the build.
IsDirectFallbackAllowed == betaModeEnabled

\* What hls.js hands to an ERROR listener: type, details, the fatal flag and
\* the HTTP code of the response (0: no response).
HlsTypes == {"networkError", "mediaError", "otherError"}
HlsDetails ==
  {"manifestParsingError", "manifestLoadError", "levelLoadError", "fragLoadError",
   "bufferStalledError", "bufferNudgeOnStall", "internalException", "keySystemNoKeys"}
HttpCodes == {0, 401, 403, 404}
HlsErrors == [type : HlsTypes, details : HlsDetails, fatal : BOOLEAN, code : HttpCodes]
NoError == [type |-> "", details |-> "", fatal |-> FALSE, code |-> 0]

\* How the browser can play a manifest: through hls.js, natively, or not.
PlayerModes == {"hlsjs", "native", "unsupported"}

\* src is a label of the manifest URL; 0 is no src.
Sources == 0..MaxSources

\* ------------------------------------------------ fetchViaBackendProxy

\* What proxy_ipfs_content can answer: a rejection, an Err variant, or an Ok
\* variant with a status code (0: one the Response constructor refuses) and a
\* content length on either side of the caller's 1000 byte minimum.
ProxyStatuses == {0, 200, 404}
DirectStatuses == {200, 404}
Lengths == {0, 999, 1000}
ProxyAnswers ==
  {[kind |-> "reject", status |-> 0, length |-> 0],
   [kind |-> "Err", status |-> 404, length |-> 0]}
  \cup [kind : {"Ok"}, status : ProxyStatuses, length : Lengths]

\* What fetch(url) can do: reject (network error) or resolve to a response.
DirectAnswers ==
  {[kind |-> "reject", status |-> 0, length |-> 0]}
  \cup [kind : {"response"}, status : DirectStatuses, length : Lengths]

NoAnswer == [kind |-> "", status |-> 0, length |-> 0]

\* What the call settled with: a Response (via the proxy or the direct
\* fetch) or a rejection.
NoResult == [kind |-> "", via |-> "", status |-> 0, length |-> 0]

\* One call at a time: where it is, the proxy calls and direct fetches it
\* has made, what the proxy and the gateway answered, its result, and the
\* results of the calls before it.
NoPx ==
  [pc |-> "idle", proxyCalls |-> 0, directFetches |-> 0,
   proxyAnswer |-> NoAnswer, directAnswer |-> NoAnswer,
   result |-> NoResult, earlier |-> <<>>]

\* new Response(blob, {status}) raises a RangeError unless 200 <= status <= 599.
ResponseConstructs(status) == status >= 200 /\ status <= 599

\* Response.ok
ResponseOk(r) == r.kind = "response" /\ r.status >= 200 /\ r.status <= 299

\* fetchPublicResource(cid) is called and its fetch awaited.
FetchPublicResource(x) == [x EXCEPT !.pc = "direct", !.directFetches = @ + 1]

\* The proxy has answered a: the synthetic Response on Ok, else the catch
\* block and the direct fetch.
OnProxyAnswer(x, a) ==
  LET x1 == [x EXCEPT !.proxyAnswer = a]
  IN IF a.kind = "Ok" /\ ResponseConstructs(a.status)
     THEN [x1 EXCEPT !.pc = "done",
                     !.result = [kind |-> "response", via |-> "proxy",
                                 status |-> a.status, length |-> a.length]]
     ELSE FetchPublicResource(x1)

\* The direct fetch has settled with a: its response or rejection is the
\* call's.
OnDirectAnswerSwallowing(x, a) ==
  [x EXCEPT !.pc = "done", !.directAnswer = a,
            !.result = IF a.kind = "reject" \/ a.status >= 300
                       THEN [kind |-> "response", via |-> "direct",
                             status |-> 200, length |-> 0]
                       ELSE [kind |-> "response", via |-> "direct",
                             status |-> a.status, length |-> a.length]]

OnDirectAnswer(x, a) ==
  [x EXCEPT !.pc = "done", !.directAnswer = a,
            !.result = IF a.kind = "reject"
                       THEN [kind |-> "reject", via |-> "direct",
                             status |-> 0, length |-> 0]
                       ELSE [kind |-> "response", via |-> "direct",
                             status |-> a.status, length |-> a.length]]

\* What processVideo makes of the result: the catch block on a rejection or
\* a response that is not ok, the size check, else the bytes are used.
FetchOutcome(r) ==
  IF r.kind = "reject" THEN "raise"
  ELSE IF ~ResponseOk(r) THEN "notOk"
  ELSE IF r.length < 1000 THEN "tooSmall"
  ELSE "ok"

\* fetchViaBackendProxy(cid) is called: without an actor the direct fetch,
\* else proxy_ipfs_content is awaited.
FetchViaBackendProxy ==
  /\ px.pc \in {"idle", "done"}
  /\ Len(px.earlier) < MaxFetches - 1 \/ px.pc = "idle"
  /\ LET x == [NoPx EXCEPT !.earlier = IF px.pc = "done"
                                       THEN Append(px.earlier, px.result)
                                       ELSE px.earlier]
     IN px' = IF ~actor THEN FetchPublicResource(x)
              ELSE [x EXCEPT !.pc = "proxy", !.proxyCalls = @ + 1]
  /\ UNCHANGED <<ca, formVars, actor, watch, betaModeEnabled, lp, cv, hp, onErrorCalls>>
  /\ UNCHANGED <<providerVars, uploadVars, pollVars, ffVars>>

ProxySettles(a) ==
  /\ px.pc = "proxy"
  /\ px' = OnProxyAnswer(px, a)
  /\ UNCHANGED <<ca, formVars, actor, watch, betaModeEnabled, lp, cv, hp, onErrorCalls>>
  /\ UNCHANGED <<providerVars, uploadVars, pollVars, ffVars>>

DirectSettles(a) ==
  /\ px.pc = "direct"
  /\ px' = OnDirectAnswer(px, a)
  /\ UNCHANGED <<ca, formVars, actor, watch, betaModeEnabled, lp, cv, hp, onErrorCalls>>
  /\ UNCHANGED <<providerVars, uploadVars, pollVars, ffVars>>

\* ------------------------------------------------ watch notifications

\* The log_watch_event calls made so far, as the metadata store receives
\* them: starts (completed = false) and completions (completed = true);
\* the calls of CustomVideoPlayer that have not settled yet; and the play and
\* ended events the video element has fired.
\* The calls made for a play start and for an end of stream, the calls not
\* yet settled, the play and ended events of the video element, and the calls
\* whose liked argument, and whose completed argument, was true.
NoWatch ==
  [starts |-> 0, completions |-> 0, pending |-> 0, plays |-> 0, endeds |-> 0,
   likedTrue |-> 0, completedTrue |-> 0]

\* The arguments both players give log_watch_event(videoId,
\* watch_duration_sec, liked, completed) from logViewEvent(completed).
WatchArguments(completed) ==
  [watch_duration_sec |-> 0, liked |-> completed, completed |-> FALSE]

\* actor.log_watch_event(videoId, 0, completed, false) is called.
LogWatchEvent(w, completed) ==
  LET a == WatchArguments(completed)
  IN [w EXCEPT !.starts = @ + (IF completed THEN 0 ELSE 1),
               !.completions = @ + (IF completed THEN 1 ELSE 0),
               !.likedTrue = @ + (IF a.liked THEN 1 ELSE 0),
               !.completedTrue = @ + (IF a.completed THEN 1 ELSE 0)]

\* logViewEvent of CustomVideoPlayer up to its await: nothing without an
\* actor or once the flag is set, else the call is made; the flag is set when
\* the call has resolved.
CvLogViewEvent(c, w, completed) ==
  IF ~actor \/ c.viewLogged THEN w
  ELSE [LogWatchEvent(w, completed) EXCEPT !.pending = @ + 1]

\* logViewEvent of LivepeerPlayer: the flag is set before the call is made.
LpLogViewEvent(l, w, completed) ==
  IF ~actor \/ l.viewLogged THEN w ELSE LogWatchEvent(w, completed)

LpViewLogged(l) == l.viewLogged \/ actor

\* ------------------------------------------------ CustomVideoPlayer

NoCv ==
  [mounted |-> FALSE, pc |-> "none", aborted |-> FALSE, timer |-> "none",
   loading |-> TRUE, fetchError |-> "", m3u8Url |-> FALSE, directVideo |-> FALSE,
   fetches |-> 0, videoErrors |-> 0, viewLogged |-> FALSE]

\* The component mounts and its effect runs: processVideo arms the 60 s timer
\* and awaits the metadata when there is an actor, the bytes otherwise.
CvStart ==
  [NoCv EXCEPT !.mounted = TRUE, !.loading = TRUE, !.fetchError = "",
               !.timer = "armed",
               !.pc = IF actor THEN "metadata" ELSE "fetch",
               !.fetches = IF actor THEN 0 ELSE 1]

CvRenderedPlaybackFirst(c) ==
  IF ~c.mounted THEN "none"
  ELSE IF c.loading THEN "spinner"
  ELSE IF c.directVideo THEN "direct"
  ELSE IF c.m3u8Url THEN "hls"
  ELSE IF c.fetchError # "" THEN "error"
  ELSE "noMethod"

\* What the component renders.
CvRendered(c) ==
  IF ~c.mounted THEN "none"
  ELSE IF c.fetchError # "" THEN "error"
  ELSE IF c.loading THEN "spinner"
  ELSE IF c.directVideo THEN "direct"
  ELSE IF c.m3u8Url THEN "hls"
  ELSE "noMethod"

\* clearTimeout(timeoutId) when timeoutId is set: a no-op once it has fired.
ClearTimer(t) == IF t = "armed" THEN "cleared" ELSE t

\* The catch block of processVideo.
CvCatch(c, e) ==
  IF c.aborted THEN [c EXCEPT !.pc = "returned"]
  ELSE [c EXCEPT !.pc = "settled", !.timer = ClearTimer(c.timer),
                 !.fetchError = e, !.loading = FALSE]

CvCatchCalls(c) == IF c.aborted THEN 0 ELSE 1

\* The effect's cleanup.
CvCleanupKeepingTimer(c) == [c EXCEPT !.aborted = TRUE, !.viewLogged = FALSE]

CvCleanup(c) ==
  [c EXCEPT !.aborted = TRUE, !.timer = ClearTimer(c.timer), !.viewLogged = FALSE]

\* ------------------------------------------------ HLSVideoPlayer

NoHp ==
  [mounted |-> FALSE, hls |-> "none", isLoading |-> TRUE, hasError |-> FALSE,
   errors |-> 0, startLoads |-> 0, recoveries |-> 0, last |-> NoError,
   videoErrors |-> 0]

\* The component mounts with a src and its effect runs.
HpStart(mode) ==
  CASE mode = "hlsjs" -> [NoHp EXCEPT !.mounted = TRUE, !.hls = "live"]
    [] mode = "native" -> [NoHp EXCEPT !.mounted = TRUE]
    [] OTHER -> [NoHp EXCEPT !.mounted = TRUE, !.hasError = TRUE, !.isLoading = FALSE]

\* The ERROR listener of HLSVideoPlayer.
HpOnHlsError(h, e) ==
  LET h1 == [h EXCEPT !.errors = @ + 1, !.last = e]
  IN IF ~e.fatal THEN h1
     ELSE CASE e.type = "networkError" -> [h1 EXCEPT !.startLoads = @ + 1]
            [] e.type = "mediaError" -> [h1 EXCEPT !.recoveries = @ + 1]
            [] OTHER -> [h1 EXCEPT !.hls = "destroyed", !.hasError = TRUE]

\* The component unmounts: hls.js is destroyed and the listeners are removed.
HpCleanup(h) ==
  [h EXCEPT !.mounted = FALSE, !.hls = IF h.hls = "live" THEN "destroyed" ELSE h.hls]

HpOnHlsErrorCalls(e) ==
  IF e.fatal /\ e.type \notin {"networkError", "mediaError"} THEN 1 ELSE 0

\* ------------------------------------------------ LivepeerPlayer

NoLp ==
  [mounted |-> FALSE, unmounted |-> FALSE, src |-> 0, mode |-> "", hls |-> "none",
   nativeListener |-> FALSE, error |-> "", useCustomFallback |-> FALSE,
   isBuffering |-> FALSE, errors |-> 0, startLoads |-> 0, recoveries |-> 0,
   last |-> NoError, lateChange |-> FALSE, viewLogged |-> FALSE]

\* What the component renders (videoId is set): the fallback player or the
\* refusal when the fallback flag is set, else the error panel with its
\* "Try alternate player" button, else the video element.
Rendered(l) ==
  IF ~l.mounted THEN "none"
  ELSE IF l.useCustomFallback
  THEN (IF IsDirectFallbackAllowed THEN "custom" ELSE "denied")
  ELSE IF l.error # "" THEN "errorPanel"
  ELSE "video"

\* The cleanup of the setup effect.
LpCleanup(l) ==
  [l EXCEPT !.hls = IF l.hls = "live" THEN "destroyed" ELSE l.hls,
            !.nativeListener = FALSE]

\* The setup effect, run after a render that showed `rendered`.
LpSetup(l, rendered) ==
  LET l0 == [l EXCEPT !.viewLogged = FALSE]
  IN IF l.src = 0 THEN [l0 EXCEPT !.error = "Fetching"]
     ELSE IF rendered # "video" THEN l0
     ELSE CASE l.mode = "hlsjs" -> [l0 EXCEPT !.hls = "live"]
            [] l.mode = "native" -> [l0 EXCEPT !.nativeListener = TRUE]
            [] OTHER -> [l0 EXCEPT !.error = "Unsupported"]

FallbackDetails ==
  {"bufferStalledError", "bufferNudgeOnStall", "internalException", "levelLoadError"}

\* The ERROR listener of LivepeerPlayer.
LpOnHlsErrorSurfacing(l, e) ==
  LET l1 == [l EXCEPT !.errors = @ + 1, !.last = e]
  IN IF ~e.fatal THEN l1
     ELSE [l1 EXCEPT !.error = "Playback", !.isBuffering = FALSE, !.hls = "destroyed"]

LpOnHlsError(l, e) ==
  LET l1 == [l EXCEPT !.errors = @ + 1, !.last = e]
  IN IF ~e.fatal THEN l1
     ELSE CASE e.type = "networkError" ->
                 IF e.details \in {"manifestParsingError", "manifestLoadError"}
                 THEN [l1 EXCEPT !.error = "Manifest", !.useCustomFallback = TRUE,
                                 !.isBuffering = FALSE, !.hls = "destroyed"]
                 ELSE IF e.code \in {401, 403}
                 THEN [l1 EXCEPT !.error = "Auth", !.useCustomFallback = TRUE,
                                 !.isBuffering = FALSE, !.hls = "destroyed"]
                 ELSE [l1 EXCEPT !.isBuffering = TRUE, !.startLoads = @ + 1]
            [] e.type = "mediaError" -> [l1 EXCEPT !.recoveries = @ + 1]
            [] OTHER ->
                 [l1 EXCEPT !.error = "Playback",
                            !.useCustomFallback = @ \/ e.details \in FallbackDetails,
                            !.isBuffering = FALSE, !.hls = "destroyed"]

\* The render that follows a state change of LivepeerPlayer: the fallback
\* player mounts the first time it is rendered.
MountFallbackAlways(l) ==
  IF l.useCustomFallback /\ ~cv.mounted THEN CvStart ELSE cv

MountFallback(l) ==
  IF Rendered(l) = "custom" /\ ~cv.mounted THEN CvStart ELSE cv

\* The session's place on the ladder: what is on screen decides it.
TierOf(l) ==
  IF Rendered(l) = "custom"
  THEN (IF betaModeEnabled /\ IsDirectFallbackAllowed THEN "DirectRemote"
        ELSE "LocalTranscode")
  ELSE "AdaptiveRemote"

TierRank(t) ==
  CASE t = "AdaptiveRemote" -> 1 [] t = "DirectRemote" -> 2 [] OTHER -> 3

\* The page mounts a LivepeerPlayer with a videoId and maybe a src.
LpMount(src, mode) ==
  /\ ~lp.mounted /\ ~hp.mounted
  /\ lp' = LpSetup([NoLp EXCEPT !.mounted = TRUE, !.src = src, !.mode = mode], "video")
  /\ UNCHANGED <<serviceVars, actor, watch, betaModeEnabled, cv, hp, onErrorCalls>>
  /\ UNCHANGED <<providerVars, uploadVars, pollVars, ffVars>>

\* The src prop changes: the effect's cleanup, then the effect again.
\* (lateChange records that the src changed while the fallback was on screen.)
LpSrcChangeResetting(src) ==
  lp' = LpSetup([LpCleanup(lp) EXCEPT !.src = src, !.useCustomFallback = FALSE,
                                      !.error = "",
                                      !.lateChange = @ \/ Rendered(lp) = "custom"],
                "video")

LpSrcChangeEffect(src) ==
  lp' = LpSetup([LpCleanup(lp) EXCEPT !.src = src,
                                      !.lateChange = @ \/ Rendered(lp) = "custom"],
                Rendered(lp))

LpSrcChange(src) ==
  /\ lp.mounted /\ ~lp.unmounted
  /\ src > lp.src
  /\ LpSrcChangeEffect(src)
  /\ UNCHANGED <<serviceVars, actor, watch, betaModeEnabled, cv, hp, onErrorCalls>>
  /\ UNCHANGED <<providerVars, uploadVars, pollVars, ffVars>>

\* hls.js reports an error to the listener.
LpHlsError(e) ==
  /\ lp.mounted /\ ~lp.unmounted
  /\ lp.hls = "live"
  /\ lp.errors < MaxErrors
  /\ lp' = LpOnHlsError(lp, e)
  /\ cv' = MountFallback(lp')
  /\ UNCHANGED <<serviceVars, actor, watch, betaModeEnabled, hp, onErrorCalls>>
  /\ UNCHANGED <<providerVars, uploadVars, pollVars, ffVars>>

\* hls.js reports one more error once the counters of the session have
\* reached their bound: the listener runs as before, and the counters stay at
\* the bound. Nothing in the listener counts errors or retries.
Saturated(n) == IF n > MaxErrors THEN MaxErrors ELSE n

LpHlsErrorAgain(e) ==
  /\ lp.mounted /\ ~lp.unmounted
  /\ lp.hls = "live"
  /\ lp.errors = MaxErrors
  /\ lp' = [LpOnHlsError(lp, e) EXCEPT !.errors = Saturated(@),
                                       !.startLoads = Saturated(@),
                                       !.recoveries = Saturated(@)]
  /\ cv' = MountFallback(lp')
  /\ UNCHANGED <<serviceVars, actor, watch, betaModeEnabled, hp, onErrorCalls>>
  /\ UNCHANGED <<providerVars, uploadVars, pollVars, ffVars>>

\* The video element reports an error during native playback.
LpNativeError ==
  /\ lp.mounted /\ ~lp.unmounted
  /\ lp.nativeListener
  /\ lp.errors < MaxErrors
  /\ lp' = [lp EXCEPT !.error = "Playback", !.errors = @ + 1]
  /\ onErrorCalls' = onErrorCalls + 1
  /\ UNCHANGED <<serviceVars, actor, watch, betaModeEnabled, cv, hp>>
  /\ UNCHANGED <<providerVars, uploadVars, pollVars, ffVars>>

\* The user presses "Try alternate player" on the error panel.
LpTryAlternate ==
  /\ lp.mounted /\ ~lp.unmounted
  /\ Rendered(lp) = "errorPanel"
  /\ lp' = [lp EXCEPT !.useCustomFallback = TRUE]
  /\ cv' = MountFallback(lp')
  /\ UNCHANGED <<serviceVars, actor, watch, betaModeEnabled, hp, onErrorCalls>>
  /\ UNCHANGED <<providerVars, uploadVars, pollVars, ffVars>>

\* The video element of LivepeerPlayer fires play: handlePlay calls
\* logViewEvent().
LpPlay ==
  /\ lp.mounted /\ ~lp.unmounted
  /\ Rendered(lp) = "video" /\ (lp.hls = "live" \/ lp.nativeListener)
  /\ watch.plays + watch.endeds < MaxEvents
  /\ watch' = [LpLogViewEvent(lp, watch, FALSE) EXCEPT !.plays = @ + 1]
  /\ lp' = [lp EXCEPT !.viewLogged = LpViewLogged(lp)]
  /\ UNCHANGED <<serviceVars, actor, betaModeEnabled, cv, hp, onErrorCalls>>
  /\ UNCHANGED <<providerVars, uploadVars, pollVars, ffVars>>

\* It fires ended after it has played: handleEnded calls logViewEvent(true).
LpEnded ==
  /\ lp.mounted /\ ~lp.unmounted
  /\ Rendered(lp) = "video" /\ (lp.hls = "live" \/ lp.nativeListener)
  /\ watch.plays > 0
  /\ watch.plays + watch.endeds < MaxEvents
  /\ watch' = [LpLogViewEvent(lp, watch, TRUE) EXCEPT !.endeds = @ + 1]
  /\ lp' = [lp EXCEPT !.viewLogged = LpViewLogged(lp)]
  /\ UNCHANGED <<serviceVars, actor, betaModeEnabled, cv, hp, onErrorCalls>>
  /\ UNCHANGED <<providerVars, uploadVars, pollVars, ffVars>>

\* LivepeerPlayer unmounts, and the fallback player with it.
LpUnmount ==
  /\ lp.mounted /\ ~lp.unmounted
  /\ lp' = [LpCleanup(lp) EXCEPT !.unmounted = TRUE]
  /\ cv' = IF cv.mounted THEN CvCleanup(cv) ELSE cv
  /\ UNCHANGED <<serviceVars, actor, watch, betaModeEnabled, hp, onErrorCalls>>
  /\ UNCHANGED <<providerVars, uploadVars, pollVars, ffVars>>

\* ------------------------------------------------ CustomVideoPlayer steps

\* CustomVideoPlayer is mounted on its own by an embedding page.
CvMount ==
  /\ ~cv.mounted /\ ~lp.mounted
  /\ cv' = CvStart
  /\ UNCHANGED <<serviceVars, actor, watch, betaModeEnabled, lp, hp, onErrorCalls>>
  /\ UNCHANGED <<providerVars, uploadVars, pollVars, ffVars>>

\* It unmounts, and the HLSVideoPlayer it rendered with it.
CvUnmount ==
  /\ cv.mounted /\ ~cv.aborted /\ ~lp.mounted
  /\ cv' = CvCleanup(cv)
  /\ hp' = IF hp.mounted THEN HpCleanup(hp) ELSE hp
  /\ UNCHANGED <<serviceVars, actor, watch, betaModeEnabled, lp, onErrorCalls>>
  /\ UNCHANGED <<providerVars, uploadVars, pollVars, ffVars>>

\* get_video_metadata settles, in any way: the abort check, then the bytes
\* are fetched through the backend proxy.
CvMetadataDone ==
  /\ cv.pc = "metadata"
  /\ cv' = IF cv.aborted THEN [cv EXCEPT !.pc = "returned"]
           ELSE [cv EXCEPT !.pc = "fetch", !.fetches = @ + 1]
  /\ UNCHANGED <<serviceVars, actor, watch, betaModeEnabled, lp, hp, onErrorCalls>>
  /\ UNCHANGED <<providerVars, uploadVars, pollVars, ffVars>>

FetchOutcomes == {"ok", "tooSmall", "notOk", "raise"}

\* The 60 s timer fires: error state and no spinner, unless aborted.
CvTimeoutFires ==
  cv' = IF cv.aborted THEN [cv EXCEPT !.timer = "fired"]
        ELSE [cv EXCEPT !.timer = "fired", !.fetchError = "Timeout", !.loading = FALSE]

CvTimeout ==
  /\ cv.timer = "armed"
  /\ CvTimeoutFires
  /\ UNCHANGED <<serviceVars, actor, watch, betaModeEnabled, lp, hp, onErrorCalls>>
  /\ UNCHANGED <<providerVars, uploadVars, pollVars, ffVars>>

\* The byte fetch settles. A failure goes to the catch block; otherwise the
\* abort check and the size check, then direct playback in beta mode, or
\* convertToHLS is called and awaited.
CvFetchDone(out, size) ==
  /\ cv.pc = "fetch"
  /\ IF out \in {"notOk", "raise"}
     THEN /\ cv' = CvCatch(cv, "Fetch")
          /\ onErrorCalls' = onErrorCalls + CvCatchCalls(cv)
          /\ UNCHANGED <<watch, ffVars>>
     ELSE IF cv.aborted
     THEN /\ cv' = [cv EXCEPT !.pc = "returned"]
          /\ UNCHANGED <<onErrorCalls, watch, ffVars>>
     ELSE IF out = "tooSmall"
     THEN /\ cv' = CvCatch(cv, "TooSmall")
          /\ onErrorCalls' = onErrorCalls + CvCatchCalls(cv)
          /\ UNCHANGED <<watch, ffVars>>
     ELSE IF betaModeEnabled /\ IsDirectFallbackAllowed
     THEN /\ cv' = [cv EXCEPT !.pc = "settled", !.timer = ClearTimer(cv.timer),
                              !.directVideo = TRUE, !.loading = FALSE]
          /\ watch' = CvLogViewEvent(cv, watch, FALSE)
          /\ UNCHANGED <<onErrorCalls, ffVars>>
     ELSE /\ cv' = [cv EXCEPT !.pc = "convert"]
          /\ ConvertToHLSCall(1, size)
          /\ UNCHANGED <<onErrorCalls, watch>>
  /\ UNCHANGED <<serviceVars, actor, betaModeEnabled, lp, hp>>
  /\ UNCHANGED <<providerVars, uploadVars, pollVars>>

\* convertToHLS has settled: on a raise the catch block; otherwise the abort
\* check, the timer is cleared, the playlist URL is set and logViewEvent is
\* called; the HLSVideoPlayer mounts when that is what is then rendered.
CvConvertDone(mode) ==
  /\ cv.pc = "convert"
  /\ ff[1].pc = "done"
  /\ IF ff[1].err # ""
     THEN /\ cv' = CvCatch(cv, "Conversion")
          /\ onErrorCalls' = onErrorCalls + CvCatchCalls(cv)
          /\ UNCHANGED watch
     ELSE /\ cv' = IF cv.aborted THEN [cv EXCEPT !.pc = "returned"]
                   ELSE [cv EXCEPT !.pc = "settled", !.timer = ClearTimer(cv.timer),
                                   !.m3u8Url = TRUE, !.loading = FALSE]
          /\ watch' = IF cv.aborted THEN watch ELSE CvLogViewEvent(cv, watch, FALSE)
          /\ UNCHANGED onErrorCalls
  /\ hp' = IF CvRendered(cv') = "hls" /\ ~hp.mounted THEN HpStart(mode) ELSE hp
  /\ UNCHANGED <<serviceVars, actor, betaModeEnabled, lp>>
  /\ UNCHANGED <<providerVars, uploadVars, pollVars, ffVars>>

\* The video element of direct playback reports an error.
CvDirectError ==
  /\ CvRendered(cv) = "direct" /\ ~cv.aborted
  /\ cv.videoErrors < MaxErrors
  /\ cv' = [cv EXCEPT !.videoErrors = @ + 1]
  /\ onErrorCalls' = onErrorCalls + 1
  /\ UNCHANGED <<serviceVars, actor, watch, betaModeEnabled, lp, hp>>
  /\ UNCHANGED <<providerVars, uploadVars, pollVars, ffVars>>

\* The video element of direct playback fires play: logViewEvent().
CvPlay ==
  /\ CvRendered(cv) = "direct" /\ ~cv.aborted
  /\ watch.plays + watch.endeds < MaxEvents
  /\ watch' = [CvLogViewEvent(cv, watch, FALSE) EXCEPT !.plays = @ + 1]
  /\ UNCHANGED <<serviceVars, actor, betaModeEnabled, lp, cv, hp, onErrorCalls>>
  /\ UNCHANGED <<providerVars, uploadVars, pollVars, ffVars>>

\* It fires ended after it has played: handleEnded calls logViewEvent(true).
CvEnded ==
  /\ CvRendered(cv) = "direct" /\ ~cv.aborted
  /\ watch.plays > 0
  /\ watch.plays + watch.endeds < MaxEvents
  /\ watch' = [CvLogViewEvent(cv, watch, TRUE) EXCEPT !.endeds = @ + 1]
  /\ UNCHANGED <<serviceVars, actor, betaModeEnabled, lp, cv, hp, onErrorCalls>>
  /\ UNCHANGED <<providerVars, uploadVars, pollVars, ffVars>>

\* A log_watch_event call of CustomVideoPlayer settles: the flag is set when
\* it resolved, a rejection is only logged.
WatchSettles(ok) ==
  /\ watch.pending > 0
  /\ watch' = [watch EXCEPT !.pending = @ - 1]
  /\ cv' = IF ok THEN [cv EXCEPT !.viewLogged = TRUE] ELSE cv
  /\ UNCHANGED <<serviceVars, actor, betaModeEnabled, lp, hp, onErrorCalls>>
  /\ UNCHANGED <<providerVars, uploadVars, pollVars, ffVars>>

\* The object URLs registered with the browser: those URL.createObjectURL
\* has made for a playlist, a thumbnail, the segments and the direct-playback
\* blob. No step takes one out: the source never calls URL.revokeObjectURL.
ObjectUrls ==
  {[kind |-> "playlist", by |-> c, i |-> 0] : c \in {d \in Callers : ff[d].playlistUrl}}
  \cup {[kind |-> "thumbnail", by |-> c, i |-> 0] : c \in {d \in Callers : ff[d].thumbnailUrl}}
  \cup UNION {{[kind |-> "segment", by |-> c, i |-> ff[c].segmentUrls[k]] :
                 k \in 1..Len(ff[c].segmentUrls)} : c \in Callers}
  \cup (IF cv.directVideo THEN {[kind |-> "direct", by |-> 0, i |-> 0]} ELSE {})

\* ------------------------------------------------ HLSVideoPlayer steps

\* The page mounts an HLSVideoPlayer on a manifest URL.
HpMount(mode) ==
  /\ ~hp.mounted /\ ~cv.mounted /\ ~lp.mounted
  /\ hp' = HpStart(mode)
  /\ onErrorCalls' = onErrorCalls + (IF mode = "unsupported" THEN 1 ELSE 0)
  /\ UNCHANGED <<serviceVars, actor, watch, betaModeEnabled, lp, cv>>
  /\ UNCHANGED <<providerVars, uploadVars, pollVars, ffVars>>

\* hls.js reports an error to the listener.
HpHlsError(e) ==
  /\ hp.hls = "live"
  /\ hp.errors < MaxErrors
  /\ hp' = HpOnHlsError(hp, e)
  /\ onErrorCalls' = onErrorCalls + HpOnHlsErrorCalls(e)
  /\ UNCHANGED <<serviceVars, actor, watch, betaModeEnabled, lp, cv>>
  /\ UNCHANGED <<providerVars, uploadVars, pollVars, ffVars>>

\* MANIFEST_PARSED (or loadedmetadata): playVideo clears the spinner.
HpManifestParsed ==
  /\ hp.mounted /\ hp.isLoading /\ ~hp.hasError
  /\ hp' = [hp EXCEPT !.isLoading = FALSE]
  /\ UNCHANGED <<serviceVars, actor, watch, betaModeEnabled, lp, cv, onErrorCalls>>
  /\ UNCHANGED <<providerVars, uploadVars, pollVars, ffVars>>

\* The video element reports an error.
HpVideoError ==
  /\ hp.mounted
  /\ hp.videoErrors < MaxErrors
  /\ hp' = [hp EXCEPT !.hasError = TRUE, !.isLoading = FALSE, !.videoErrors = @ + 1]
  /\ onErrorCalls' = onErrorCalls + 1
  /\ UNCHANGED <<serviceVars, actor, watch, betaModeEnabled, lp, cv>>
  /\ UNCHANGED <<providerVars, uploadVars, pollVars, ffVars>>

\* ------------------------------------------------ VideoUpload

\* Text is a sequence of characters, so that prefixes and substrings are
\* computed as the code computes them.
IpfsPrefix == <<"i", "p", "f", "s", ":">>

\* Content ids, one of which itself begins with the characters of the prefix.
ContentIds == {<<"Q">>, <<"Q", "m">>, IpfsPrefix \o <<"Q">>}

StartsWith(text, prefix) ==
  /\ Len(text) >= Len(prefix)
  /\ SubSeq(text, 1, Len(prefix)) = prefix

\* text.substring(n)
SubstringFrom(text, n) == SubSeq(text, n + 1, Len(text))

\* `ipfs:${videoInfo.ipfsCid}`
StorageRefOf(cid) == IpfsPrefix \o cid

\* `${cid.substring(0, 16)}-${timestamp}`, on the single clock reading 0
VideoIdOf(cid) ==
  SubSeq(cid, 1, IF Len(cid) < 16 THEN Len(cid) ELSE 16) \o <<"-", "0">>

Files == {"", "a.mp4"}
Titles == {"", "t"}
TagTexts == {"", "a, b"}

\* tags.split(',').map(t => t.trim()).filter(Boolean)
TagList(text) == IF text = "" THEN <<>> ELSE <<"a", "b">>

NoSent == [set |-> FALSE, id |-> <<>>, title |-> "", tags |-> <<>>, ref |-> <<>>]

\* The form's state, the values handleSubmit's closure holds, the VideoInfo it
\* was given, the create_video_metadata call it made, and the calls of the
\* caller's callbacks.
NoVu ==
  [pc |-> "idle", file |-> "", title |-> "", tags |-> "", isUploading |-> FALSE,
   held |-> [file |-> "", title |-> "", tags |-> ""],
   cid |-> <<>>, sent |-> NoSent,
   onError |-> 0, onSuccess |-> 0, submits |-> 0]

\* handleFileChange and the onChange handlers of the title and tags inputs;
\* none of them is disabled while an upload runs. No file chosen leaves the
\* file as it is.
VuEdit(f, t, g) ==
  /\ vu' = [vu EXCEPT !.file = IF f = "" THEN @ ELSE f, !.title = t, !.tags = g]
  /\ vu' # vu
  /\ UNCHANGED <<rc, px, ca, actor, watch, betaModeEnabled, lp, cv, hp, onErrorCalls>>
  /\ UNCHANGED <<providerVars, uploadVars, pollVars, ffVars>>

\* handleSubmit up to its first await. The submit button is disabled while
\* isUploading or without a file and a title; without an actor the handler
\* alerts and returns.
VuHandleSubmit ==
  /\ ~vu.isUploading
  /\ vu.file # "" /\ vu.title # ""
  /\ vu.submits < MaxSubmits
  /\ vu' = IF ~actor THEN [vu EXCEPT !.submits = @ + 1]
           ELSE [vu EXCEPT !.isUploading = TRUE, !.pc = "uploadVideo",
                           !.held = [file |-> vu.file, title |-> vu.title, tags |-> vu.tags],
                           !.sent = NoSent, !.cid = <<>>,
                           !.submits = @ + 1]
  /\ UNCHANGED <<rc, px, ca, actor, watch, betaModeEnabled, lp, cv, hp, onErrorCalls>>
  /\ UNCHANGED <<providerVars, uploadVars, pollVars, ffVars>>

VuCatchKeepingUploading(v) ==
  [v EXCEPT !.pc = "idle", !.onError = @ + 1]

\* The catch block of handleSubmit: the error is reported and the uploading
\* flag is cleared; file, title and tags are left alone.
VuCatch(v) ==
  [v EXCEPT !.pc = "idle", !.onError = @ + 1, !.isUploading = FALSE]

\* uploadVideo settles: with a VideoInfo, and create_video_metadata is called
\* and awaited, or with an error of any upload-time phase.
VuUploadVideoSettles(r) ==
  /\ vu.pc = "uploadVideo"
  /\ vu' = IF r \in ContentIds
           THEN [vu EXCEPT !.pc = "createMetadata", !.cid = r,
                           !.sent = [set |-> TRUE, id |-> VideoIdOf(r),
                                     title |-> vu.held.title,
                                     tags |-> TagList(vu.held.tags),
                                     ref |-> StorageRefOf(r)]]
           ELSE VuCatch(vu)
  /\ UNCHANGED <<rc, px, ca, actor, watch, betaModeEnabled, lp, cv, hp, onErrorCalls>>
  /\ UNCHANGED <<providerVars, uploadVars, pollVars, ffVars>>

MetadataOutcomes == {"Ok", "Err", "raiseExists", "raise"}

\* create_video_metadata settles. Either variant of the response, and a
\* rejection that says 'Video ID already exists', end in onSuccess and the
\* 1.5 s reset timer; any other rejection is thrown on to the catch block.
VuCreateMetadataSettles(out) ==
  /\ vu.pc = "createMetadata"
  /\ vu' = IF out = "raise" THEN VuCatch(vu)
           ELSE [vu EXCEPT !.pc = "resetTimer", !.onSuccess = @ + 1]
  /\ UNCHANGED <<rc, px, ca, actor, watch, betaModeEnabled, lp, cv, hp, onErrorCalls>>
  /\ UNCHANGED <<providerVars, uploadVars, pollVars, ffVars>>

\* The reset timer fires: the form is emptied and the flag cleared.
VuResetFires ==
  /\ vu.pc = "resetTimer"
  /\ vu' = [vu EXCEPT !.pc = "idle", !.file = "", !.title = "", !.tags = "",
                      !.isUploading = FALSE]
  /\ UNCHANGED <<rc, px, ca, actor, watch, betaModeEnabled, lp, cv, hp, onErrorCalls>>
  /\ UNCHANGED <<providerVars, uploadVars, pollVars, ffVars>>

\* ------------------------------------------------ processVideo: content id

\* What get_video_metadata can answer: Ok with or without a storage
\* reference, Err, or a rejection.
NoResponse == [kind |-> "none", storage_ref |-> <<>>]

StorageRefs ==
  {StorageRefOf(c) : c \in ContentIds} \cup ContentIds
    \cup {<<"l", "i", "v", "e", "p", "e", "e", "r", ":", "p">>}

MetadataResponses ==
  {[kind |-> "Ok", storage_ref |-> <<r>>] : r \in StorageRefs}
    \cup {[kind |-> "Ok", storage_ref |-> <<>>],
          [kind |-> "Err", storage_ref |-> <<>>],
          [kind |-> "raise", storage_ref |-> <<>>]}

NoRc == [pc |-> "none", videoId |-> <<>>, response |-> NoResponse, ipfsCid |-> <<>>]

IpfsCidOfKeepingColon(videoId, response) ==
  IF response.kind = "Ok" /\ Len(response.storage_ref) > 0
       /\ StartsWith(response.storage_ref[1], IpfsPrefix)
  THEN SubstringFrom(response.storage_ref[1], 4)
  ELSE videoId

\* The content id processVideo goes on with: the video id, unless the
\* metadata holds a storage reference that starts with 'ipfs:'.
IpfsCidOf(videoId, response) ==
  IF response.kind = "Ok" /\ Len(response.storage_ref) > 0
       /\ StartsWith(response.storage_ref[1], IpfsPrefix)
  THEN SubstringFrom(response.storage_ref[1], 5)
  ELSE videoId

\* processVideo starts for a video id: with an actor it awaits the metadata.
RcStart(videoId) ==
  /\ rc.pc = "none"
  /\ rc' = IF actor THEN [NoRc EXCEPT !.pc = "metadata", !.videoId = videoId]
           ELSE [NoRc EXCEPT !.pc = "resolved", !.videoId = videoId, !.ipfsCid = videoId]
  /\ UNCHANGED <<vu, px, ca, actor, watch, betaModeEnabled, lp, cv, hp, onErrorCalls>>
  /\ UNCHANGED <<providerVars, uploadVars, pollVars, ffVars>>

RcMetadataSettles(response) ==
  /\ rc.pc = "metadata"
  /\ rc' = [rc EXCEPT !.pc = "resolved", !.response = response,
                      !.ipfsCid = IpfsCidOf(rc.videoId, response)]
  /\ UNCHANGED <<vu, px, ca, actor, watch, betaModeEnabled, lp, cv, hp, onErrorCalls>>
  /\ UNCHANGED <<providerVars, uploadVars, pollVars, ffVars>>

\* ------------------------------------------------------------ specifications

Unstarted ==
  /\ isLoading = TRUE /\ ipfsReady = FALSE /\ livepeerReady = FALSE /\ client = FALSE

\* A provider that has not run initServices yet, in a build with both
\* credentials.
InitProvider == Unstarted /\ env = ValidEnv

\* The builds in which each credential is either absent or usable.
ProvidedEnvs == [jwt : {"missing", "valid"}, key : {"missing", "valid"}]

InitUploads ==
  /\ upc = [u \in ConcurrentUploads |-> "idle"]
  /\ ucid = [u \in ConcurrentUploads |-> ""]
  /\ uerr = [u \in ConcurrentUploads |-> ""]
  /\ awaited = [u \in ConcurrentUploads |-> <<>>]
  /\ createCalls = [u \in ConcurrentUploads |-> <<>>]
  /\ createOutcomes = [u \in ConcurrentUploads |-> <<>>]
  /\ asset = [u \in ConcurrentUploads |-> NoAsset]
  /\ videoInfo = [u \in ConcurrentUploads |-> NoInfo]

InitPolls ==
  /\ poll = [u \in ConcurrentUploads |-> NoPoll]
  /\ monitorLog = [u \in ConcurrentUploads |-> <<>>]

InitFF ==
  /\ loaded = FALSE /\ loading = FALSE /\ ffmpeg = FALSE /\ loads = 0
  /\ vfs = {} /\ now = 0
  /\ ff = [c \in ReloadCallers |-> NoCall]

InitPlayers ==
  /\ betaModeEnabled \in BOOLEAN
  /\ lp = NoLp /\ cv = NoCv /\ hp = NoHp /\ onErrorCalls = 0
  /\ actor \in BOOLEAN
  /\ watch = NoWatch
  /\ px = NoPx
  /\ ca = NoCa
  /\ vu = NoVu
  /\ rc = NoRc

\* The application: services are initialised, videos are uploaded, and each
\* upload's detached monitor polls the transcoder.
Init == Unstarted /\ env \in ProvidedEnvs /\ InitUploads /\ InitPolls /\ InitFF /\ InitPlayers /\ ~betaModeEnabled /\ ~actor

UploadSteps(S) ==
  \/ InitServices
  \/ \E u \in S : UploadVideo(u)
  \/ \E u \in S, r \in Cids \cup {"", "fail"} : UploadFileDone(u, r)
  \/ \E u \in S, ok \in BOOLEAN : HeadCheckDone(u, ok)
  \/ \E u \in S : \E resp \in CreateResponses(u) : Create1Ok(u, resp)
  \/ \E u \in S : Create1Fail(u)
  \/ \E u \in S : \E resp \in CreateResponses(u) : Create2Ok(u, resp)
  \/ \E u \in S : Create2Fail(u)
  \/ \E u \in S : GetAssetDone(u)
  \/ \E u \in S : MonitorWake(u)
  \/ \E u \in S : MonitorSettled(u)

Next == UploadSteps(Uploads)

Spec == Init /\ [][Next]_vars

\* The application with one upload, in a build with any credentials.
InitAnyEnv ==
  /\ Unstarted /\ env \in Environments
  /\ InitUploads /\ InitPolls /\ InitFF /\ InitPlayers /\ ~betaModeEnabled /\ ~actor

NextInit == UploadSteps({1})

SpecInit == InitAnyEnv /\ [][NextInit]_vars

\* The same application with one more upload running beside the others.
NextConcurrent == UploadSteps(ConcurrentUploads)

SpecConcurrent == Init /\ [][NextConcurrent]_vars

\* waitForAssetReady on its own, on an initialised service, for any
\* maxAttempts and any answers of the status endpoint.
Intervals == {0, DefaultInterval}

InitPoll ==
  /\ isLoading = FALSE /\ ipfsReady = TRUE /\ livepeerReady = TRUE /\ client = TRUE
  /\ env = ValidEnv
  /\ InitUploads /\ InitPolls /\ InitFF /\ InitPlayers /\ ~betaModeEnabled /\ ~actor

NextPoll ==
  \/ \E p \in Uploads, m \in 0..MaxAttemptsArg, i \in Intervals :
       CallWaitForAssetReady(p, m, i)
  \/ \E p \in Uploads : StatusFetch(p)
  \/ \E p \in Uploads : SleepDone(p)

SpecPoll == InitPoll /\ [][NextPoll]_vars

\* uploadVideo calls up to their return, on initialised services, with the
\* clock advancing between their steps; the storage service gives content ids
\* of full length.
NextIds ==
  \/ \E u \in ConcurrentUploads : UploadVideo(u)
  \/ \E u \in ConcurrentUploads, r \in LongCids \cup {"fail"} : UploadFileDone(u, r)
  \/ \E u \in ConcurrentUploads, ok \in BOOLEAN : HeadCheckDone(u, ok)
  \/ \E u \in ConcurrentUploads : \E resp \in CreateResponses(u) : Create1Ok(u, resp)
  \/ \E u \in ConcurrentUploads : Create1Fail(u)
  \/ \E u \in ConcurrentUploads : \E resp \in CreateResponses(u) : Create2Ok(u, resp)
  \/ \E u \in ConcurrentUploads : Create2Fail(u)
  \/ Tick

SpecIds == InitPoll /\ [][NextIds]_vars

FairSpecPoll ==
  /\ SpecPoll
  /\ \A p \in Uploads : WF_vars(StatusFetch(p)) /\ WF_vars(SleepDone(p))

\* FFmpegService on its own: concurrent callers of convertToHLS.
NextFF ==
  \/ \E c \in Callers, size \in Sizes : ConvertToHLS(c, size)
  \/ \E c \in Callers, ok \in BOOLEAN : LoadSettles(c, ok)
  \/ \E c \in Callers : WaitDone(c)
  \/ Tick
  \/ \E c \in Callers : FetchFileDone(c)
  \/ \E c \in Callers, ok \in BOOLEAN : WriteInputDone(c, ok)
  \/ \E c \in Callers, out \in ThumbnailOutcomes : ThumbnailDone(c, out)
  \/ \E c \in Callers, ok \in BOOLEAN, n \in 0..MaxWritten : TranscodeDone(c, ok, n)
  \/ \E c \in Callers : ReadPlaylistDone(c)
  \/ \E c \in Callers : ReadThumbnailDone(c)
  \/ \E c \in Callers : ReadSegmentDone(c)
  \/ \E c \in Callers, ok \in BOOLEAN : DeleteInputDone(c, ok)

SpecFF == Init /\ [][NextFF]_vars

\* The load protocol: concurrent callers of convertToHLS and of
\* generateThumbnail, each entering through ensureLoaded. A convertToHLS call
\* is followed up to its first await after ensureLoaded.
NextLoad ==
  \/ \E c \in Callers : ConvertToHLS(c, MaxFileSize)
  \/ \E c \in Callers : GenerateThumbnail(c, MaxFileSize)
  \/ \E c \in Callers, ok \in BOOLEAN : LoadSettles(c, ok)
  \/ \E c \in Callers : WaitDone(c)
  \/ Tick
  \/ \E c \in Callers : GtFetchFileDone(c)
  \/ \E c \in Callers, ok \in BOOLEAN : GtWriteInputDone(c, ok)
  \/ \E c \in Callers, out \in ThumbnailOutcomes : GtExecDone(c, out)
  \/ \E c \in Callers : GtReadDone(c)
  \/ \E c \in Callers, ok \in BOOLEAN : GtDeleteInputDone(c, ok)
  \/ \E c \in Callers, ok \in BOOLEAN : GtDeleteOutputDone(c, ok)

SpecLoad == Init /\ [][NextLoad]_vars

\* One convertToHLS call against an engine whose segment reads answer in any
\* way.
Probers == {1}

NextProbes ==
  \/ \E c \in Probers : ConvertToHLS(c, MaxFileSize)
  \/ \E c \in Probers, ok \in BOOLEAN : LoadSettles(c, ok)
  \/ \E c \in Probers : FetchFileDone(c)
  \/ \E c \in Probers, ok \in BOOLEAN : WriteInputDone(c, ok)
  \/ \E c \in Probers, out \in ThumbnailOutcomes : ThumbnailDone(c, out)
  \/ \E c \in Probers, ok \in BOOLEAN, n \in 0..MaxWritten : TranscodeDone(c, ok, n)
  \/ \E c \in Probers : ReadPlaylistDone(c)
  \/ \E c \in Probers : ReadThumbnailDone(c)
  \/ \E c \in Probers, r \in SegmentReads : ReadSegmentAny(c, r)
  \/ \E c \in Probers, ok \in BOOLEAN : DeleteInputDone(c, ok)

SpecProbes == Init /\ [][NextProbes]_vars

FairSpecProbes ==
  /\ SpecProbes
  /\ \A c \in Probers :
       /\ WF_vars(\E r \in SegmentReads : ReadSegmentAny(c, r))
       /\ WF_vars(\E ok \in BOOLEAN : DeleteInputDone(c, ok))

\* convertToHLS calls up to the end of ensureLoaded, with one more caller, so
\* that a call can arrive after a load has failed while another still waits.
NextReload ==
  \/ \E c \in ReloadCallers, size \in Sizes : ConvertToHLS(c, size)
  \/ \E c \in ReloadCallers, ok \in BOOLEAN : LoadSettles(c, ok)
  \/ \E c \in ReloadCallers : WaitDone(c)
  \/ Tick

SpecReload == Init /\ [][NextReload]_vars

\* A load settles, and the 100 ms interval of a waiting caller keeps firing.
FairSpecReload ==
  /\ SpecReload
  /\ \A c \in ReloadCallers :
       /\ WF_vars(\E ok \in BOOLEAN : LoadSettles(c, ok))
       /\ WF_vars(WaitDone(c))

\* One playback session of a page, in a build with or without the beta flag:
\* a LivepeerPlayer with the fallback player it may mount, or an
\* HLSVideoPlayer on a manifest URL.
InitPlayback == InitProvider /\ InitUploads /\ InitPolls /\ InitFF /\ InitPlayers

NextPlayback ==
  \/ \E src \in Sources, mode \in PlayerModes : LpMount(src, mode)
  \/ \E src \in Sources : LpSrcChange(src)
  \/ \E e \in HlsErrors : LpHlsError(e)
  \/ LpNativeError
  \/ LpTryAlternate
  \/ LpUnmount
  \/ CvMetadataDone
  \/ CvTimeout
  \/ \E out \in FetchOutcomes : CvFetchDone(out, MaxFileSize)
  \/ CvDirectError
  \/ \E mode \in PlayerModes : HpMount(mode)
  \/ \E e \in HlsErrors : HpHlsError(e)
  \/ HpManifestParsed
  \/ HpVideoError

SpecPlayback == InitPlayback /\ [][NextPlayback]_vars

\* A CustomVideoPlayer mounted on its own, with the FFmpegService call it
\* makes and the HLSVideoPlayer it mounts on the result.
SessionCallers == {1}

NextLocal ==
  \/ CvMount
  \/ CvUnmount
  \/ CvMetadataDone
  \/ CvTimeout
  \/ \E out \in FetchOutcomes, size \in Sizes : CvFetchDone(out, size)
  \/ \E mode \in PlayerModes : CvConvertDone(mode)
  \/ CvDirectError
  \/ \E c \in SessionCallers, ok \in BOOLEAN : LoadSettles(c, ok)
  \/ \E c \in SessionCallers : FetchFileDone(c)
  \/ \E c \in SessionCallers, ok \in BOOLEAN : WriteInputDone(c, ok)
  \/ \E c \in SessionCallers, out \in ThumbnailOutcomes : ThumbnailDone(c, out)
  \/ \E c \in SessionCallers, ok \in BOOLEAN, n \in 0..MaxWritten : TranscodeDone(c, ok, n)
  \/ \E c \in SessionCallers : ReadPlaylistDone(c)
  \/ \E c \in SessionCallers : ReadThumbnailDone(c)
  \/ \E c \in SessionCallers : ReadSegmentDone(c)
  \/ \E c \in SessionCallers, ok \in BOOLEAN : DeleteInputDone(c, ok)
  \/ \E e \in HlsErrors : HpHlsError(e)
  \/ HpManifestParsed
  \/ HpVideoError

SpecLocal == InitPlayback /\ [][NextLocal]_vars

\* createAsset on its own, on an initialised service, for any options.url.
NextAsset ==
  \/ \E url \in UrlInputs : CreateAssetCalled(url)
  \/ \E ok \in BOOLEAN : CaHeadCheckDone(ok)
  \/ \E ok \in BOOLEAN : CaCreate1Settles(ok)
  \/ \E ok \in BOOLEAN : CaCreate2Settles(ok)

SpecAsset == InitPoll /\ [][NextAsset]_vars

\* IPFSService.fetchViaBackendProxy on its own, called one call after the
\* other, with or without a backend actor, for any answers of the proxy and
\* of the gateway.
NextFetch ==
  \/ FetchViaBackendProxy
  \/ \E a \in ProxyAnswers : ProxySettles(a)
  \/ \E a \in DirectAnswers : DirectSettles(a)

SpecFetch == InitPlayback /\ [][NextFetch]_vars

\* One LivepeerPlayer session on a fixed src, with the play and ended events
\* of its video elements and the metadata store's answers.
NextWatch ==
  \/ \E src \in Sources, mode \in PlayerModes : LpMount(src, mode)
  \/ LpPlay
  \/ LpEnded
  \/ \E e \in HlsErrors : LpHlsError(e)
  \/ LpNativeError
  \/ LpTryAlternate
  \/ LpUnmount
  \/ CvMetadataDone
  \/ \E out \in FetchOutcomes : CvFetchDone(out, MaxFileSize)
  \/ CvPlay
  \/ CvEnded
  \/ CvDirectError
  \/ \E ok \in BOOLEAN : WatchSettles(ok)

SpecWatch == InitPlayback /\ [][NextWatch]_vars

\* The HLS tier of a LivepeerPlayer session, with errors that may go on
\* without end.
RetryErrors ==
  [type : HlsTypes, details : {"manifestLoadError", "fragLoadError", "levelLoadError"},
   fatal : BOOLEAN, code : {0, 401}]

NextRetry ==
  \/ \E src \in Sources, mode \in PlayerModes : LpMount(src, mode)
  \/ LpPlay
  \/ \E e \in RetryErrors : LpHlsError(e)
  \/ \E e \in RetryErrors : LpHlsErrorAgain(e)
  \/ LpUnmount

SpecRetry == InitPlayback /\ [][NextRetry]_vars

\* hls.js keeps reporting: an attached stream either starts to play or gives
\* another error.
FairSpecRetry ==
  /\ SpecRetry
  /\ WF_vars(\/ LpPlay
             \/ \E e \in RetryErrors : LpHlsError(e)
             \/ \E e \in RetryErrors : LpHlsErrorAgain(e))

\* The upload form and the player that later resolves the content id of the
\* uploaded video, with or without an actor.
NextForm ==
  \/ \E f \in Files, t \in Titles, g \in TagTexts : VuEdit(f, t, g)
  \/ VuHandleSubmit
  \/ \E r \in ContentIds \cup {<<"raise">>} : VuUploadVideoSettles(r)
  \/ \E out \in MetadataOutcomes : VuCreateMetadataSettles(out)
  \/ VuResetFires
  \/ \E c \in ContentIds : RcStart(VideoIdOf(c))
  \/ \E response \in MetadataResponses : RcMetadataSettles(response)

SpecForm == InitPlayback /\ [][NextForm]_vars

\* ------------------------------------------------------------ properties

AllFailed(u) ==
  /\ Len(createCalls[u]) > 0
  /\ Len(createOutcomes[u]) = Len(createCalls[u])
  /\ \A i \in 1..Len(createOutcomes[u]) : createOutcomes[u][i] = "fail"

\* C1: for every maxAttempts >= 0 and every sequence of answers of the status
\* endpoint, waitForAssetReady makes at most maxAttempts status calls, and
\* every run ends: it returns the asset it saw ready, or it raises an error.
C1_BoundedCallsAndTermination ==
  /\ [](\A p \in Uploads :
          /\ poll[p].calls <= poll[p].maxAttempts
          /\ poll[p].pc = "returned" => poll[p].readySeen
          /\ poll[p].pc = "raised" => poll[p].err # "")
  /\ \A p \in Uploads : [](poll[p].pc # "none" => <>Terminal(poll[p]))

\* A run with the largest maxAttempts has used all its attempts and ended.
C1_Witness ==
  \E p \in Uploads :
    /\ poll[p].maxAttempts = MaxAttemptsArg
    /\ poll[p].calls = MaxAttemptsArg
    /\ Terminal(poll[p])

C3_AllPendingTimesOut ==
  \A p \in Uploads :
    (poll[p].pc # "none" /\ ~poll[p].failedSeen /\ ~poll[p].readySeen) =>
      /\ poll[p].pc # "returned"
      /\ poll[p].sleeps = IF poll[p].pc = "getAsset" THEN poll[p].calls - 1
                          ELSE poll[p].calls
      /\ poll[p].slept = poll[p].sleeps * poll[p].interval
      /\ poll[p].pc = "raised" =>
           /\ poll[p].err = "Timeout"
           /\ poll[p].calls = poll[p].maxAttempts

\* A run of the largest maxAttempts timed out with nothing but non-terminal
\* answers.
C3_Witness ==
  \E p \in Uploads :
    /\ poll[p].pc = "raised" /\ poll[p].err = "Timeout"
    /\ ~poll[p].failedSeen
    /\ poll[p].maxAttempts = MaxAttemptsArg
    /\ poll[p].sleeps = MaxAttemptsArg

\* C4: no two polling loops run at the same time for the same asset id.
C4_OneLoopPerJob ==
  \A u1, u2 \in ConcurrentUploads :
    (u1 # u2 /\ Running(poll[u1]) /\ Running(poll[u2])) =>
      poll[u1].assetId # poll[u2].assetId

C6_SubmitFailureRaised ==
  \A u \in Uploads :
    AllFailed(u) =>
      /\ upc[u] = "rejected" /\ uerr[u] = "Submit"
      /\ poll[u].pc = "none"
      /\ ~videoInfo[u].set
      /\ asset[u] = NoAsset

\* Both create calls of an upload failed.
C6_Witness ==
  \E u \in Uploads : createOutcomes[u] = <<"fail", "fail">> /\ upc[u] = "rejected"

\* C7: a returned upload has a non-empty content id, and once its monitor has
\* settled the asset's status is Ready or Failed.
C7_MonitorSetsStatus ==
  \A u \in Uploads :
    upc[u] = "returned" =>
      /\ videoInfo[u].ipfsCid # ""
      /\ (Terminal(poll[u]) /\ poll[u].handled) => asset[u].phase \in {"ready", "failed"}

\* C8: an error of the detached monitor is logged and nothing else: the
\* upload stays returned, and no step changes a returned upload's outcome or
\* its VideoInfo.
C8_MonitorErrorOnlyLogged ==
  /\ [](\A u \in Uploads :
          (poll[u].detached /\ poll[u].pc = "raised" /\ poll[u].handled) =>
            /\ upc[u] = "returned" /\ uerr[u] = ""
            /\ videoInfo[u].set
            /\ monitorLog[u] = <<"Asset monitoring error">>)
  /\ [][\A u \in Uploads :
          upc[u] = "returned" =>
            /\ upc'[u] = "returned" /\ uerr'[u] = uerr[u]
            /\ videoInfo'[u] = videoInfo[u]]_vars

\* The monitor of a returned upload timed out and its catch handler ran.
C8_Witness ==
  \E u \in Uploads :
    /\ upc[u] = "returned"
    /\ poll[u].pc = "raised" /\ poll[u].err = "Timeout" /\ poll[u].handled

\* C9: a failed first create call is followed by a second call of another
\* shape; the submit error is raised only when that one has failed too; a
\* successful first call is the only call.
C9_FallbackBeforeSubmitError ==
  \A u \in Uploads :
    /\ (Len(createOutcomes[u]) >= 1 /\ createOutcomes[u][1] = "fail") =>
         /\ Len(createCalls[u]) = 2
         /\ createCalls[u][2].fields # createCalls[u][1].fields
    /\ (Len(createOutcomes[u]) >= 1 /\ createOutcomes[u][1] = "ok") =>
         Len(createCalls[u]) = 1
    /\ uerr[u] = "Submit" => createOutcomes[u] = <<"fail", "fail">>
    /\ createOutcomes[u] = <<"fail", "ok">> => upc[u] = "returned"

\* The first call failed and the fallback call succeeded.
C9_Witness ==
  \E u \in Uploads : createOutcomes[u] = <<"fail", "ok">> /\ upc[u] = "returned"

\* C10: a caller whose file is larger than 100 MiB makes no engine call
\* (starting a load and writing a file included) and ends with the too-large
\* error.
C10_TooLargeBeforeEngine ==
  \A c \in Callers :
    (ff[c].pc # "idle" /\ ff[c].size > MaxFileSize) =>
      /\ ff[c].engineCalls = 0
      /\ ff[c].pc = "done" => ff[c].err = "TooLarge"

\* C11: whenever no call is in progress, the engine's virtual filesystem holds
\* no entry: every call has removed what it created, whether it returned or
\* raised.
C11_NoEntriesLeft ==
  (\A c \in Callers : ff[c].pc \in {"idle", "done"}) => vfs = {}

\* C12: a convertToHLS call whose thumbnail command failed does not raise at
\* the read of the thumbnail: the thumbnail failure alone does not end it.
C12_ThumbnailFailureTolerated ==
  \A c \in Callers :
    (ff[c].op = "convertToHLS" /\ ff[c].thumbFailed) =>
      ~(ff[c].pc = "done" /\ ff[c].err # "" /\ ff[c].at = "readThumbnail")

\* C13: for every interleaving of convertToHLS and generateThumbnail callers,
\* at most one load is in flight; no load starts while one is in flight or
\* after one has succeeded; a caller arriving during a load waits for it.
C13_OneLoadInFlight ==
  /\ [](/\ Cardinality({c \in Callers : ff[c].pc = "load"}) <= 1
        /\ loading <=> (\E c \in Callers : ff[c].pc = "load"))
  /\ [][(loaded \/ loading) => loads' = loads]_vars
  /\ [][\A c \in Callers :
          (loading /\ ff[c].pc = "idle" /\ ff'[c].pc # "idle") =>
            ff'[c].pc = "waitLoad"]_vars

\* A caller of one operation waits while the load started by a caller of the
\* other is in flight.
C13_Witness ==
  \E c1, c2 \in Callers :
    /\ ff[c1].pc = "load" /\ ff[c2].pc = "waitLoad"
    /\ ff[c1].op # ff[c2].op

\* C14: whatever the segment reads answer, the probed index is below 100, the
\* collected URLs are those of indices 0 .. index-1 in order (so at most 100
\* of them, without a gap), and a call that has started probing ends.
C14_BoundedGapFreeProbing ==
  /\ [](\A c \in Probers :
          /\ ff[c].index <= MAX_SEGMENTS
          /\ ff[c].pc = "readSegment" => ff[c].index < MAX_SEGMENTS
          /\ ff[c].segmentUrls = [i \in 1..ff[c].index |-> i - 1])
  /\ \A c \in Probers : (ff[c].pc = "readSegment") ~> (ff[c].pc = "done")

\* A call has collected 100 segments and returned.
C14_Witness ==
  \E c \in Probers :
    /\ ff[c].pc = "done" /\ ff[c].err = ""
    /\ Len(ff[c].segmentUrls) = MAX_SEGMENTS

\* C15: once the 60 s timer of a session that was not aborted has fired, the
\* session shows the timeout error and its conversion is no longer running:
\* no convertToHLS call is in progress and none is awaited.
C15_TimeoutCancelsConversion ==
  (cv.timer = "fired" /\ ~cv.aborted) =>
    /\ cv.fetchError = "Timeout" /\ ~cv.loading
    /\ cv.pc # "convert"
    /\ ff[1].pc \in {"idle", "done"}

\* The recoverable errors: a fatal media error, or a fatal
\* network error that is neither a manifest failure nor a 401/403.
RecoverableClass(e) ==
  /\ e.fatal
  /\ \/ e.type = "mediaError"
     \/ /\ e.type = "networkError"
        /\ e.details \notin {"manifestParsingError", "manifestLoadError"}
        /\ e.code \notin {401, 403}

\* C16: no step of a session moves its tier backward along the ladder
\* AdaptiveRemote, DirectRemote, LocalTranscode (so it advances at most
\* twice); a step that handles a non-fatal or recoverable error, and a step
\* that changes the src, leave the tier where it is.
C16_TierNeverMovesBack ==
  /\ [][TierRank(TierOf(lp')) >= TierRank(TierOf(lp))]_vars
  /\ [][(lp'.errors = lp.errors + 1 /\ lp.hls = "live"
          /\ (~lp'.last.fatal \/ RecoverableClass(lp'.last)))
        => TierOf(lp') = TierOf(lp)]_vars
  /\ [][lp'.src # lp.src /\ lp.mounted => TierOf(lp') = TierOf(lp)]_vars

\* The src changed while the session was on the fallback tier, after a fatal
\* error of the adaptive player.
C16_Witness ==
  /\ lp.lateChange /\ lp.last.fatal
  /\ TierOf(lp) = "DirectRemote"

\* C17: where fallback is permitted, after a fatal error of the adaptive
\* player that is not of the recoverable class, the session has left the
\* AdaptiveRemote tier.
C17_FatalAdvances ==
  (IsDirectFallbackAllowed /\ lp.last.fatal /\ ~RecoverableClass(lp.last)) =>
    TierOf(lp) # "AdaptiveRemote"

\* C18: a step in which LivepeerPlayer or HLSVideoPlayer handles a fatal
\* network error it retries, or a fatal media error, asks hls.js to reload or
\* to recover, keeps the player alive, sets no error state, leaves the tier
\* unchanged and does not call onError; however many there are.
C18_RecoverableHandledInPlace ==
  /\ [][(lp'.errors = lp.errors + 1 /\ lp.hls = "live" /\ RecoverableClass(lp'.last)) =>
          /\ lp'.error = lp.error /\ lp'.useCustomFallback = lp.useCustomFallback
          /\ TierOf(lp') = TierOf(lp)
          /\ lp'.hls = "live"
          /\ lp'.startLoads + lp'.recoveries = lp.startLoads + lp.recoveries + 1
          /\ onErrorCalls' = onErrorCalls]_vars
  /\ [][(hp'.errors = hp.errors + 1 /\ hp'.last.fatal
          /\ hp'.last.type \in {"networkError", "mediaError"}) =>
          /\ hp'.hasError = hp.hasError
          /\ hp'.hls = "live"
          /\ hp'.startLoads + hp'.recoveries = hp.startLoads + hp.recoveries + 1
          /\ onErrorCalls' = onErrorCalls]_vars

\* The adaptive player has handled nothing but recoverable errors, as many as
\* the bound allows, and shows no error.
C18_Witness ==
  /\ lp.startLoads >= 1 /\ lp.recoveries >= 1
  /\ lp.startLoads + lp.recoveries = MaxErrors
  /\ lp.error = "" /\ onErrorCalls = 0 /\ Rendered(lp) = "video"

\* C19: in a build where direct fallback is not allowed, the fallback player
\* is never mounted (so no bytes are fetched and no conversion is started) and
\* the tier stays AdaptiveRemote; after a fatal failure of the adaptive player
\* the session shows the error.
C19_NoFallbackWhenDisallowed ==
  ~IsDirectFallbackAllowed =>
    /\ ~cv.mounted /\ cv.pc = "none" /\ cv.fetches = 0
    /\ \A c \in Callers : ff[c].pc = "idle"
    /\ TierOf(lp) = "AdaptiveRemote"
    /\ (lp.last.fatal /\ ~RecoverableClass(lp.last)) =>
         /\ lp.error # ""
         /\ Rendered(lp) \in {"denied", "errorPanel"}

\* Fallback is not allowed and the adaptive player failed on its manifest:
\* the refusal is on screen.
C19_Witness ==
  /\ ~IsDirectFallbackAllowed
  /\ lp.error = "Manifest" /\ lp.useCustomFallback
  /\ Rendered(lp) = "denied"

\* C20: after a manifest fetch that failed with HTTP 403 the player's error is
\* the authentication error, and where fallback is allowed the session is on
\* the DirectRemote tier.
C20_Manifest403IsAuth ==
  (lp.last = [type |-> "networkError", details |-> "manifestLoadError",
              fatal |-> TRUE, code |-> 403]) =>
    /\ lp.error = "Auth"
    /\ IsDirectFallbackAllowed => TierOf(lp) = "DirectRemote"

\* C21: in a session where fallback is permitted and the adaptive tier has
\* failed, an error of the direct-playback video element advances the session
\* to local transcoding: the fetched bytes are handed to convertToHLS.
C21_DirectFailureStartsTranscode ==
  [][(/\ IsDirectFallbackAllowed
      /\ Rendered(lp) = "custom"
      /\ CvRendered(cv) = "direct"
      /\ cv'.videoErrors = cv.videoErrors + 1)
     => (cv'.pc = "convert" /\ ff'[1].op = "convertToHLS")]_vars

\* C22: once the local session has ended in an error (byte fetch failure,
\* conversion error or the 60 s timeout), the caller's onError has been
\* called exactly once.
C22_LastTierFailureSurfacedOnce ==
  (/\ cv.mounted /\ ~cv.aborted
   /\ cv.pc = "settled"
   /\ cv.fetchError # "")
  => onErrorCalls = 1

\* C23: one session makes at most one start call and at most one completion
\* call of log_watch_event, whatever the order of play events, ended events
\* and calls still in flight.
C23_AtMostOneStartOneCompletion ==
  watch.starts <= 1 /\ watch.completions <= 1

\* C24: when the start notification has been sent, an ended event makes the
\* completion call.
C24_CompletionAfterStart ==
  [][(/\ actor
      /\ watch.starts >= 1
      /\ watch'.endeds = watch.endeds + 1)
     => watch'.completions = watch.completions + 1]_vars

C26_ObjectUrlsReleased ==
  (/\ cv.aborted
   /\ cv.pc \in {"settled", "returned"}
   /\ ff[1].pc \in {"idle", "done"})
  => ObjectUrls = {}

\* C27: a settled fetchViaBackendProxy call has asked the proxy first and at
\* most once; it made no direct fetch when the proxy answered Ok, and exactly
\* one when there was no actor or the proxy failed; and when that direct
\* fetch failed too (rejection or non-success status), the call rejected or
\* returned a response that is not ok, which processVideo turns into a fetch
\* error: never a successful result.
C27_ProxyThenOneDirectFetch ==
  px.pc = "done" =>
    /\ px.proxyCalls = (IF actor THEN 1 ELSE 0)
    /\ px.directFetches > 0 => px.proxyAnswer.kind # "Ok" \/ ~ResponseConstructs(px.proxyAnswer.status)
    /\ (px.proxyAnswer.kind = "Ok" /\ ResponseConstructs(px.proxyAnswer.status)) =>
         /\ px.directFetches = 0
         /\ px.result.via = "proxy"
         /\ px.result.status = px.proxyAnswer.status
         /\ px.result.length = px.proxyAnswer.length
    /\ (~actor \/ px.proxyAnswer.kind \in {"reject", "Err"}) => px.directFetches = 1
    /\ (px.directFetches = 1 /\ (px.directAnswer.kind = "reject" \/ px.directAnswer.status >= 300)) =>
         /\ ~ResponseOk(px.result)
         /\ FetchOutcome(px.result) \in {"raise", "notOk"}

\* The proxy answered with its Err variant and the direct fetch then failed
\* with a non-success status: the caller has a response that is not ok.
C27_Witness ==
  /\ px.pc = "done" /\ actor
  /\ px.proxyAnswer.kind = "Err"
  /\ px.directFetches = 1 /\ px.directAnswer.status = 404
  /\ FetchOutcome(px.result) = "notOk"

\* https://ipfs.io/ipfs/<cid>
PublicUrl(cid) ==
  [scheme |-> "https", host |-> "ipfs.io", path |-> "ipfs", id |-> cid, file |-> ""]

\* The URL carries a content id: ipfs://<cid>... or .../ipfs/<cid>...
CarriesCid(url) == url.id # "" /\ (url.scheme = "ipfs" \/ url.path = "ipfs")

UnusableJwt == env.jwt \in {"missing", "malformed"}

UnusableKey == env.key \in {"missing", "placeholder", "blank"}

C29_UnusableCredentialsNotReady ==
  ~isLoading =>
    /\ UnusableJwt => ~ipfsReady
    /\ UnusableKey => ~livepeerReady
    /\ (UnusableJwt \/ UnusableKey) =>
          /\ upc[1] \in {"idle", "rejected"}
          /\ awaited[1] = <<>>
          /\ createCalls[1] = <<>>
          /\ upc[1] = "rejected" =>
                /\ uerr[1] \in {"IpfsNotReady", "LivepeerNotReady"}
                /\ UnusableJwt => uerr[1] = "IpfsNotReady"

C29_Witness ==
  /\ ~isLoading
  /\ env = [jwt |-> "valid", key |-> "placeholder"]
  /\ upc[1] = "rejected"
  /\ uerr[1] = "LivepeerNotReady"


\* C30: any two uploadVideo calls that both returned a VideoInfo gave ids that
\* differ, also when both uploaded the same bytes and read the same clock
\* value.
C30_IdsDiffer ==
  \A u, v \in ConcurrentUploads :
    (u # v /\ videoInfo[u].set /\ videoInfo[v].set) => videoInfo[u].id # videoInfo[v].id


\* C31: the storage reference the upload form writes for a content id is
\* decoded by processVideo back to that content id: when get_video_metadata
\* answers with the reference that was written, the id the player goes on to
\* fetch is the uploaded content id, and the reference is the prefix 'ipfs:'
\* followed by it; this holds for every content id, also for one that itself
\* begins with the prefix.
C31_StorageRefRoundTrip ==
  /\ \A c \in ContentIds :
       IpfsCidOf(VideoIdOf(c), [kind |-> "Ok", storage_ref |-> <<StorageRefOf(c)>>]) = c
  /\ (/\ vu.sent.set
      /\ rc.pc = "resolved"
      /\ rc.response = [kind |-> "Ok", storage_ref |-> <<vu.sent.ref>>])
       => /\ rc.ipfsCid = vu.cid
          /\ vu.sent.ref = IpfsPrefix \o rc.ipfsCid

C31_Witness ==
  /\ vu.sent.set
  /\ vu.cid = IpfsPrefix \o <<"Q">>
  /\ rc.pc = "resolved"
  /\ rc.videoId = vu.sent.id
  /\ rc.response = [kind |-> "Ok", storage_ref |-> <<vu.sent.ref>>]
  /\ rc.ipfsCid = vu.cid

\* C32: the step in which a submitted upload fails, while uploadVideo or
\* create_video_metadata is awaited, clears the uploading flag, reports to
\* onError once and to onSuccess not at all, and leaves the file, the title
\* and the tags of the form as they were, the file still chosen; whenever the
\* form is idle it is not uploading.
C32_FailureLeavesFormRetryable ==
  [][ /\ (vu.pc \in {"uploadVideo", "createMetadata"} /\ vu'.pc = "idle")
         => /\ ~vu'.isUploading
            /\ vu'.file = vu.file /\ vu'.file # ""
            /\ vu'.title = vu.title
            /\ vu'.tags = vu.tags
            /\ vu'.onError = vu.onError + 1
            /\ vu'.onSuccess = vu.onSuccess
      /\ (vu'.pc = "idle" /\ vu.pc # "resetTimer") => (vu'.isUploading = FALSE)
    ]_vars

\* An upload failed while uploadVideo was awaited, and the form holds what was
\* submitted.
C32_Witness ==
  /\ vu.pc = "idle"
  /\ vu.onError = 1
  /\ ~vu.sent.set
  /\ ~vu.isUploading
  /\ vu.held.file # ""
  /\ vu.file = vu.held.file /\ vu.title = vu.held.title /\ vu.tags = vu.held.tags


\* C33: every log_watch_event call made on an end of stream carries true in
\* its completed argument, every call made on a play start carries false
\* there, and no call carries true in its liked argument.
C33_CompletedInFourthArgument ==
  /\ watch.completedTrue = watch.completions
  /\ watch.likedTrue = 0


\* C34: a log_watch_event call for a play start is made only once the video
\* element has fired play: never while it has not played, whatever the byte
\* fetch or the conversion did, and so never in a session that ended in an
\* error or in the timeout without playing.
C34_StartOnlyAfterPlay ==
  watch.starts > 0 => watch.plays > 0


\* C35: a convertToHLS call that returned has collected as many segment URLs
\* as the engine wrote segment files for its playlist, in index order: the
\* names it probed are the names the transcode command made the engine write.
C35_ReturnsEverySegmentWritten ==
  \A c \in Callers :
    (ff[c].op = "convertToHLS" /\ ff[c].pc = "done" /\ ff[c].err = "") =>
      LET written == {i \in 0..MAX_SEGMENTS : EngineSegmentFile(ff[c].fileId, i) \in vfs}
      IN /\ Len(ff[c].segmentUrls) = Cardinality(written)
         /\ \A i \in written : SegmentFile(ff[c].fileId, i) \in vfs


C40_LoadFlagsConsistent ==
  /\ [](/\ loaded => ffmpeg
        /\ ~(loading /\ loaded))
  /\ [][\A c \in ReloadCallers :
          /\ (ff[c].pc = "load" /\ ff'[c].err = "LoadFailed") =>
               (~loaded' /\ ~loading' /\ ~ffmpeg')
          /\ (ff[c].pc = "idle" /\ ff'[c].pc # "idle" /\ ~loaded /\ ~loading) =>
               (ff'[c].pc = "load" /\ loading' /\ ffmpeg' /\ loads' = loads + 1)]_vars

\* A load failed, and a later call has started a second load.
C40_Witness ==
  \E c1, c2 \in ReloadCallers :
    /\ ff[c1].pc = "done" /\ ff[c1].err = "LoadFailed" /\ ff[c1].at = "load"
    /\ ff[c2].pc = "load"
    /\ loads = 2 /\ loading /\ ~loaded /\ ffmpeg


\* C37: a session whose stream is attached through hls.js eventually plays or
\* leaves the tier (hls.js is destroyed on a fatal error or an unmount): it
\* does not stay in the tier forever answering recoverable errors.
C37_NoEndlessRetry ==
  (lp.hls = "live") ~> (watch.plays > 0 \/ lp.hls # "live")


\* C38: getAsset reports 'ready', 'pending' or no asset, whatever the stream
\* lookup answered; so the run of waitForAssetReady that uploadVideo detaches,
\* which polls through getAsset, never observes a failed status and never
\* raises the remote-failure error.
C38_PollerNeverSeesFailed ==
  /\ \A o \in StreamOutcomes : GetAsset(o) \in {"ready", "pending", "null"}
  /\ \A u \in Uploads :
       poll[u].detached =>
         /\ ~poll[u].failedSeen
         /\ poll[u].err # "RemoteFailure"

\* A detached run has polled a stream that was not active, and then returned.
C38_Witness ==
  /\ poll[1].detached
  /\ poll[1].sleeps > 0
  /\ poll[1].pc = "returned"
  /\ poll[1].readySeen


\* C39: once the 60 s timer has put a mounted CustomVideoPlayer into the error
\* state, every later step of the session leaves it showing the error: a
\* fetch or a conversion that completes afterwards never brings playback on
\* screen.
C39_TimeoutErrorIsFinal ==
  [][(/\ cv.mounted /\ cv'.mounted
      /\ cv.timer = "fired" /\ cv'.timer = "fired"
      /\ CvRendered(cv) = "error")
       => CvRendered(cv') = "error"]_vars

\* The conversion completed after the timer had fired, and the error stays.
C39_Witness ==
  /\ cv.mounted /\ cv.timer = "fired"
  /\ cv.m3u8Url
  /\ cv.fetchError = "Timeout"
  /\ CvRendered(cv) = "error"

====
